---- MODULE Spec2Model ----
(***************************************************************************)
(* State-machine model of the energy market simulation                     *)
(* (src/src/energy_market): the agents' ledger (record_transaction), the   *)
(* producer/utility contract books, the regulator and the tick driver      *)
(* (EnergyMarketModel.step_async followed by RandomActivation.step).       *)
(*                                                                         *)
(* Conventions                                                             *)
(*  - Money (resources, prices, fines) is an integer number of 1/Unit      *)
(*    currency units; energy amounts are plain integers.  Every division   *)
(*    the code performs goes through ExactDiv, which has no value when the *)
(*    quotient is not exact, so a finished TLC run is exact arithmetic.    *)
(*  - The producer's capacity is written max_capacity in producer.py and   *)
(*    max_production_capacity in energy_market.py; both name the one field *)
(*    max_capacity here.  producer.current_selling_price                   *)
(*    (energy_market.py:368) is the producer's current_price.              *)
(*  - min_contract_duration is read by record_transaction (base.py:75,125) *)
(*    and assigned nowhere: it is a per-producer configuration value.      *)
(*  - An LLM decision is a record whose fields the step reads; its values *)
(*    are drawn from small sets.                                            *)
(*  - A dict is a sequence of entries in insertion order, each carrying    *)
(*    its key.                                                             *)
(*  - The population and the constructor arguments (needs, capacities,   *)
(*    costs, durations, initial price) are fixed small values with which   *)
(*    every division of the run is exact; one producer burns oil and one   *)
(*    is solar, so that renewable and conventional energy both occur.      *)
(***************************************************************************)
EXTENDS Integers, Sequences, FiniteSets, TLC

(* ---------------- bounds of the model ---------------- *)
(* ticks the scheduler runs *)
MaxTicks == 1
(* ticks step_async begins: the last one is left after its data collection *)
MaxStarts == 2

(* ---------------- population (constructor arguments) ---------------- *)
Consumers == {"consumer_0"}
Prosumers == {"prosumer_0"}
Producers == {"producer_0", "producer_1"}
Utilities == {"utility_0", "utility_1"}
Regulator == "regulator"
Customers == Consumers \cup Prosumers
Traders == Customers \cup Producers \cup Utilities
Agents == Traders \cup {Regulator}

(* schedule.agents keeps creation order *)
CustomerSeq == <<"consumer_0", "prosumer_0">>
ProducerSeq == <<"producer_0", "producer_1">>
UtilitySeq == <<"utility_0", "utility_1">>

Unit == 36 * 100

ExactDiv(a, b) == CHOOSE q \in {a \div b} : q * b = a
Min(a, b) == IF a <= b THEN a ELSE b
Max(a, b) == IF a >= b THEN a ELSE b

(* ---------------- configuration drawn at construction ---------------- *)
energy_needs == ("consumer_0" :> 36) @@ ("prosumer_0" :> 24)
initial_resources ==
    ("consumer_0" :> 5000 * Unit) @@ ("prosumer_0" :> 1000 * Unit) @@
    ("producer_0" :> 20000 * Unit) @@ ("producer_1" :> 20000 * Unit) @@
    ("utility_0" :> 20000 * Unit) @@ ("utility_1" :> 20000 * Unit)
initial_capacity == ("producer_0" :> 40) @@ ("producer_1" :> 50)
base_production_cost == ("producer_0" :> 20 * Unit) @@ ("producer_1" :> 50 * Unit)
production_type == ("producer_0" :> "oil") @@ ("producer_1" :> "solar")
contract_duration == ("utility_0" :> 2) @@ ("utility_1" :> 3)
prosumer_capacity == ("prosumer_0" :> 10)
configured_min_contract_duration == ("producer_0" :> 1) @@ ("producer_1" :> 2)
initial_price == 125
producer_upgrade_cost == 5000
producer_upgrade_capacity_increase == 50
prosumer_upgrade_cost == 1000
prosumer_upgrade_capacity_increase == 50
prosumer_storage_capacity == 24

VARIABLES
    pc,                  \* position of the driver
    steps,               \* model._steps / schedule.time
    resources,           \* agent.resources, traders
    profit,              \* agent.profit
    transaction_history, \* agent.transaction_history
    utility_contracts,   \* producer.utility_contracts
    producer_contracts,  \* utility.producer_contracts
    customer_base,       \* utility.customer_base
    max_capacity,        \* producer.max_capacity
    current_price,       \* producer.current_price
    current_production,  \* producer / prosumer current_production
    current_selling_price, \* utility.current_selling_price
    renewable_quota,     \* utility.renewable_quota, percent
    energy_balance,      \* consumer.energy_balance
    energy_stored,       \* prosumer.energy_stored
    selling_price,       \* prosumer.selling_price
    max_production_capacity, \* prosumer.max_production_capacity
    min_contract_duration, \* producer.min_contract_duration
    violations,          \* regulator.violations
    current_carbon_tax,  \* regulator.current_carbon_tax, a fraction
    collected,           \* rows the data collector holds
    tick_initial,        \* step_async's initial_resources and market_state; first: the resources of tick 0;
                         \* report: the row datacollector.collect stored for the tick
    pending,             \* agents the scheduler has yet to step this tick
    cur,                 \* agent whose step is running
    loc,                 \* locals of the running loop
    last                 \* the operation just performed

vars == <<pc, steps, resources, profit, transaction_history, utility_contracts,
          producer_contracts, customer_base, max_capacity, current_price,
          current_production, current_selling_price, renewable_quota,
          energy_balance, energy_stored, selling_price,
          max_production_capacity, min_contract_duration, violations,
          current_carbon_tax, collected, tick_initial, pending, cur, loc, last>>

(* ---------------- dicts as keyed sequences ---------------- *)
BookKeys(b) == {b[i].key : i \in DOMAIN b}
BookHas(b, k) == k \in BookKeys(b)
BookGet(b, k) == b[CHOOSE i \in DOMAIN b : b[i].key = k]
(* a book that never replaces: every put appends *)
BookAppend(b, k, c) == Append(b, c)

BookPut(b, k, c) ==
    IF BookHas(b, k)
    THEN [i \in DOMAIN b |-> IF b[i].key = k THEN c ELSE b[i]]
    ELSE Append(b, c)
BookDel(b, k) == SelectSeq(b, LAMBDA c : c.key # k)

RECURSIVE BookSum(_)
BookSum(b) == IF b = <<>> THEN 0 ELSE b[1].amount + BookSum(Tail(b))

is_renewable(p) == production_type[p] \in {"solar", "wind", "hydro"}

(* ---------------- the ledger: EnergyMarketAgent ---------------- *)
(* The part of the agents' state one ledger call can touch *)
World ==
    [res |-> resources, hist |-> transaction_history,
     ucon |-> utility_contracts, pcon |-> producer_contracts,
     cust |-> customer_base]

(* update_resources; the regulator's resources are float('inf') and stay so *)
UpdateResources(res, a, amount) ==
    IF a \in DOMAIN res THEN [res EXCEPT ![a] = @ + amount] ELSE res

Transaction(t, ttype, amount, price, cp, total, ren) ==
    [timestamp |-> t, type |-> ttype, amount |-> amount, price |-> price,
     counterparty |-> cp, total_value |-> total, is_renewable |-> ren]

(* a contract that is born with one step of its duration already used *)
ContractStarted(k, amount, price, duration, ren) ==
    [key |-> k, accepted |-> TRUE, amount |-> amount, price |-> price,
     duration |-> duration, remaining_duration |-> duration - 1,
     is_renewable |-> ren]

Contract(k, amount, price, duration, ren) ==
    [key |-> k, accepted |-> TRUE, amount |-> amount, price |-> price,
     duration |-> duration, remaining_duration |-> duration,
     is_renewable |-> ren]

RenStr(b) == IF b THEN "True" ELSE "False"

(* a sale recorded in the seller's history only *)
RecordSellOneSided(W, self, amount, price, cp) ==
    LET total == amount * price
        ren == is_renewable(self)
        c1 == Contract(cp, amount, price, min_contract_duration[self], ren)
        c2 == Contract(self, amount, price, min_contract_duration[self], ren)
        r1 == UpdateResources(W.res, self, total)
        r2 == UpdateResources(r1, cp, -total)
    IN [W EXCEPT
          !.res = r2,
          !.ucon[self] = BookPut(@, cp, c1),
          !.pcon[cp] = BookPut(@, self, c2),
          !.hist[self] = Append(@, Transaction(steps, "sell", amount, price, cp, total, RenStr(ren)))]

(* lines 61-87: the seller is a producer, the counterparty a utility *)
RecordSell(W, self, amount, price, cp) ==
    LET total == amount * price
        ren == is_renewable(self)
        c1 == Contract(cp, amount, price, min_contract_duration[self], ren)
        c2 == Contract(self, amount, price, min_contract_duration[self], ren)
        r1 == UpdateResources(W.res, self, total)
        r2 == UpdateResources(r1, cp, -total)
    IN [W EXCEPT
          !.res = r2,
          !.ucon[self] = BookPut(@, cp, c1),
          !.pcon[cp] = BookPut(@, self, c2),
          !.hist[self] = Append(@, Transaction(steps, "sell", amount, price, cp, total, RenStr(ren))),
          !.hist[cp] = Append(@, Transaction(steps, "buy", amount, price, self, total, RenStr(ren)))]

(* a purchase that opens a contract in the seller's book whoever buys *)
RecordBuyContracting(W, self, amount, price, cp) ==
    LET total == amount * price
        r1 == UpdateResources(W.res, self, -total)
        r2 == UpdateResources(r1, cp, total)
        c2 == Contract(self, amount, price, 0, FALSE)
    IN [W EXCEPT
          !.res = r2,
          !.pcon = IF cp \in Utilities
                   THEN [W.pcon EXCEPT ![cp] = BookPut(@, self, c2)] ELSE W.pcon,
          !.ucon = IF cp \in Producers
                   THEN [W.ucon EXCEPT ![cp] = BookPut(@, self, c2)] ELSE W.ucon,
          !.hist[self] = Append(@, Transaction(steps, "buy", amount, price, cp, total, "unset")),
          !.hist[cp] = Append(@, Transaction(steps, "sell", amount, price, self, total, "unset"))]

(* lines 89-137, 144-145 *)
RecordBuy(W, self, amount, price, cp) ==
    LET total == amount * price
        r1 == UpdateResources(W.res, self, -total)
        r2 == UpdateResources(r1, cp, total)
    IN  IF self \in Customers
        THEN LET ren == IF cp \in Utilities THEN RenStr(renewable_quota[cp] > 50)
                        ELSE IF cp \in Prosumers THEN "True" ELSE "unset"
                 entry == [key |-> self, amount |-> amount,
                           avg_consumption |-> energy_needs[self],
                           last_purchase |-> steps]
             IN [W EXCEPT
                   !.res = r2,
                   !.cust = IF cp \in Utilities
                            THEN [W.cust EXCEPT ![cp] = BookPut(@, self, entry)]
                            ELSE W.cust,
                   !.hist[self] = Append(@, Transaction(steps, "buy", amount, price, cp, total, ren)),
                   !.hist[cp] = Append(@, Transaction(steps, "sell", amount, price, self, total, ren))]
        ELSE \* a utility buying from a producer
             LET ren == is_renewable(cp)
                 r3 == UpdateResources(r2, cp, -(base_production_cost[cp] * amount))
                 c1 == Contract(cp, amount, price, min_contract_duration[cp], ren)
                 c2 == Contract(self, amount, price, min_contract_duration[cp], ren)
             IN [W EXCEPT
                   !.res = r3,
                   !.pcon[self] = BookPut(@, cp, c1),
                   !.ucon[cp] = BookPut(@, self, c2),
                   !.hist[self] = Append(@, Transaction(steps, "buy", amount, price, cp, total, RenStr(ren))),
                   !.hist[cp] = Append(@, Transaction(steps, "sell", amount, price, self, total, RenStr(ren)))]

(* a cost that is also credited to the agent named as counterparty *)
RecordCostCredited(W, self, ttype, amount, price, cp) ==
    [W EXCEPT
       !.res = UpdateResources(UpdateResources(W.res, self, -(price * Unit)),
                               cp, price * Unit),
       !.hist[self] = Append(@, Transaction(steps, ttype, amount, price, cp, amount * price, "unset"))]

(* lines 139-142: any other type.  amount is the levy in money, price the
   plain multiplier the caller passes; resources fall by price currency units *)
RecordCost(W, self, ttype, amount, price, cp) ==
    [W EXCEPT
       !.res = UpdateResources(W.res, self, -(price * Unit)),
       !.hist[self] = Append(@, Transaction(steps, ttype, amount, price, cp, amount * price, "unset"))]

(* a ledger that turns down a transaction the payer cannot afford *)
RecordTransactionIfFunded(W, self, ttype, amount, price, cp) ==
    LET payer == IF ttype = "sell" THEN cp ELSE self
    IN IF payer \in DOMAIN W.res /\ W.res[payer] < amount * price THEN W
       ELSE IF ttype = "sell" THEN RecordSell(W, self, amount, price, cp)
       ELSE IF ttype = "buy" THEN RecordBuy(W, self, amount, price, cp)
       ELSE RecordCost(W, self, ttype, amount, price, cp)

RecordTransaction(W, self, ttype, amount, price, cp) ==
    IF ttype = "sell" THEN RecordSell(W, self, amount, price, cp)
    ELSE IF ttype = "buy" THEN RecordBuy(W, self, amount, price, cp)
    ELSE RecordCost(W, self, ttype, amount, price, cp)

(* ---------------- EnergyMarketModel.get_market_state ---------------- *)
RECURSIVE SumOver(_, _)
SumOver(f, S) ==
    IF S = {} THEN 0
    ELSE LET x == CHOOSE y \in S : TRUE IN f[x] + SumOver(f, S \ {x})

(* np.mean(prices) if prices else self.initial_price, lines 371 and 373 *)
MeanPrice(prices, ids) ==
    IF ids = {} THEN initial_price * Unit
    ELSE ExactDiv(SumOver(prices, ids), Cardinality(ids))

(* a mean over the utilities and the producers together, rounded down *)
AllSellersPrice ==
    (SumOver(current_selling_price, Utilities) + SumOver(current_price, Producers))
       \div Cardinality(Utilities \cup Producers)

(* lines 363-366, 371: the mean of the utilities' selling prices *)
AveragePrice == MeanPrice(current_selling_price, Utilities)

(* lines 367-370, 373: the mean of the producers' prices *)
AverageSpotPrice == MeanPrice(current_price, Producers)

(* lines 375-387, as the fraction n/d (0/1 when nothing is produced) *)
(* the output of the producers that are not renewable *)
ConventionalProduction ==
    SumOver([p \in Producers |-> IF is_renewable(p) THEN 0 ELSE current_production[p]], Producers)

RenewableProduction ==
    SumOver([p \in Producers |-> IF is_renewable(p) THEN current_production[p] ELSE 0], Producers)
TotalProduction == SumOver([p \in Producers |-> current_production[p]], Producers)
RenewableRatio ==
    IF TotalProduction > 0 THEN [n |-> RenewableProduction, d |-> TotalProduction]
    ELSE [n |-> 0, d |-> 1]

(* lines 351-354: the amounts of the utilities' producer contracts that
   still run *)
RECURSIVE LiveAmount(_)
LiveAmount(b) ==
    IF b = <<>> THEN 0
    ELSE (IF b[1].remaining_duration > 0 THEN b[1].amount ELSE 0) + LiveAmount(Tail(b))

(* a supply read off the producers' output instead *)
ProducedSupply == TotalProduction

TotalSupply == SumOver([u \in Utilities |-> LiveAmount(producer_contracts[u])], Utilities)

(* lines 355-361 *)
TotalDemand == SumOver(energy_needs, Consumers) + SumOver(energy_needs, Prosumers)

(* lines 390-396: producers and prosumers together *)
TotalCapacity ==
    SumOver(max_capacity, Producers) + SumOver(max_production_capacity, Prosumers)

(* lines 458-464: the share of a utility's contracts that are renewable *)
RECURSIVE CountRenewable(_)
CountRenewable(b) ==
    IF b = <<>> THEN 0
    ELSE (IF b[1].is_renewable THEN 1 ELSE 0) + CountRenewable(Tail(b))
UtilityRenewableRatio(u) ==
    IF producer_contracts[u] # <<>>
    THEN [n |-> CountRenewable(producer_contracts[u]), d |-> Len(producer_contracts[u])]
    ELSE [n |-> 0, d |-> 1]

(* lines 413-435: one offer per utility, one per prosumer with stock or surplus *)
UtilityOffer(u) ==
    [seller_id |-> u, price |-> current_selling_price[u],
     amount |-> BookSum(producer_contracts[u])]
ProsumerOffer(s) ==
    [seller_id |-> s, price |-> selling_price[s],
     amount |-> energy_stored[s] + Max(0, current_production[s] - energy_needs[s])]
Offers ==
    {UtilityOffer(u) : u \in Utilities} \cup
    {ProsumerOffer(s) : s \in {x \in Prosumers :
        energy_stored[x] > 0 \/ current_production[x] > energy_needs[x]}}

base_carbon_tax == 10
NoAgent == "none"
NoLast == [op |-> "none"]

(* ---------------- construction: EnergyMarketModel.__init__ ---------------- *)
(* UtilityAgent._initialize_pricing_strategy, persona eco_friendly: the margin
   0.1 becomes 0.08, and the price is the average price at that moment, which
   is the mean of the utilities created so far *)
RECURSIVE InitialSellingPrice(_)
InitialSellingPrice(i) ==
    LET RECURSIVE Before(_)
        Before(j) == IF j = 0 THEN 0 ELSE InitialSellingPrice(j) + Before(j - 1)
        avg == IF i = 1 THEN initial_price * Unit ELSE ExactDiv(Before(i - 1), i - 1)
    IN ExactDiv(avg * 108, 100)

UtilityIndex(u) == CHOOSE i \in DOMAIN UtilitySeq : UtilitySeq[i] = u

(* EnergyProducerAgent.__init__: base_production_cost * (1 + min_profit_margin * 2) *)
InitialCurrentPrice(p) == ExactDiv(base_production_cost[p] * 130, 100)

(* lines 248-257: each consumer (prosumers are consumers) joins one utility *)
RECURSIVE InitialCustomers(_, _, _)
InitialCustomers(assign, u, i) ==
    IF i > Len(CustomerSeq) THEN <<>>
    ELSE LET c == CustomerSeq[i]
             rest == InitialCustomers(assign, u, i + 1)
         IN IF assign[c] = u
            THEN <<[key |-> c, amount |-> energy_needs[c],
                    avg_consumption |-> energy_needs[c], last_purchase |-> 0]>> \o rest
            ELSE rest

RECURSIVE CustomerAmounts(_)
CustomerAmounts(b) == IF b = <<>> THEN 0 ELSE b[1].amount + CustomerAmounts(Tail(b))

SetupLoc(i, cust, producers) ==
    [ui |-> i,
     remaining_needs |-> IF i <= Len(UtilitySeq) THEN CustomerAmounts(cust[UtilitySeq[i]]) ELSE 0,
     producers |-> producers]

Init ==
    /\ pc = "setup"
    /\ steps = 0
    /\ resources = initial_resources
    /\ profit = [a \in Traders |-> 0]
    /\ transaction_history = [a \in Agents |-> <<>>]
    /\ utility_contracts = [p \in Producers |-> <<>>]
    /\ producer_contracts = [u \in Utilities |-> <<>>]
    /\ \E assign \in [Customers -> Utilities] :
          customer_base = [u \in Utilities |-> InitialCustomers(assign, u, 1)]
    /\ max_capacity = initial_capacity
    /\ current_price = [p \in Producers |-> InitialCurrentPrice(p)]
    /\ current_production = [a \in Producers \cup Prosumers |-> 0]
    /\ current_selling_price = [u \in Utilities |-> InitialSellingPrice(UtilityIndex(u))]
    /\ renewable_quota = [u \in Utilities |-> 30]
    /\ energy_balance = [c \in Customers |-> 0]
    /\ energy_stored = [s \in Prosumers |-> 0]
    /\ selling_price = [s \in Prosumers |-> 120 * Unit]
    /\ max_production_capacity = prosumer_capacity
    /\ min_contract_duration = configured_min_contract_duration
    /\ violations = [price_gouging |-> <<>>, market_concentration |-> <<>>,
                     renewable_quota |-> <<>>]
    /\ current_carbon_tax = [n |-> base_carbon_tax, d |-> 1]
    /\ collected = 0
    /\ tick_initial = [resources |-> initial_resources, first |-> initial_resources]
    /\ pending = {}
    /\ cur = NoAgent
    /\ loc = SetupLoc(1, customer_base, ProducerSeq)
    /\ last = NoLast

(* what a ledger call leaves in the agents' state *)
Commit(W) ==
    /\ resources' = W.res
    /\ transaction_history' = W.hist
    /\ utility_contracts' = W.ucon
    /\ producer_contracts' = W.pcon
    /\ customer_base' = W.cust

SeqRemove(q, x) == SelectSeq(q, LAMBDA y : y # x)
SeqSet(q) == {q[i] : i \in DOMAIN q}

(* a setup that contracts for all the remaining needs whatever the
   producer has left *)
SetupContractOverbooked(p) ==
    LET u == UtilitySeq[loc.ui]
        contracted_capacity == BookSum(utility_contracts[p])
        available_capacity == max_capacity[p] - contracted_capacity
        contract_amount == loc.remaining_needs
        price == ExactDiv(base_production_cost[p] * 130, 100)
    IN /\ pc = "setup"
       /\ loc.ui <= Len(UtilitySeq)
       /\ loc.remaining_needs > 0
       /\ loc.producers # <<>>
       /\ p \in SeqSet(loc.producers)
       /\ ~BookHas(producer_contracts[u], p)
       /\ IF available_capacity <= 0
          THEN UNCHANGED <<resources, transaction_history, utility_contracts,
                           producer_contracts, customer_base, loc, last>>
          ELSE /\ Commit(RecordTransaction(World, u, "buy", contract_amount, price, p))
               /\ loc' = [loc EXCEPT
                            !.remaining_needs = @ - contract_amount,
                            !.producers =
                               IF contracted_capacity + contract_amount >= max_capacity[p]
                               THEN SeqRemove(@, p) ELSE @]
               /\ last' = [op |-> "setup_contract", buyer |-> u, seller |-> p,
                           amount |-> contract_amount, price |-> price]
       /\ UNCHANGED <<pc, steps, profit, max_capacity, current_price,
                      current_production, current_selling_price, renewable_quota,
                      energy_balance, energy_stored, selling_price,
                      max_production_capacity, min_contract_duration, violations,
                      current_carbon_tax, collected, tick_initial, pending, cur>>

(* lines 259-298: one pass of the while loop for the utility being set up *)
SetupContract(p) ==
    LET u == UtilitySeq[loc.ui]
        contracted_capacity == BookSum(utility_contracts[p])
        available_capacity == max_capacity[p] - contracted_capacity
        contract_amount == Min(loc.remaining_needs, available_capacity)
        price == ExactDiv(base_production_cost[p] * 130, 100)
    IN /\ pc = "setup"
       /\ loc.ui <= Len(UtilitySeq)
       /\ loc.remaining_needs > 0
       /\ loc.producers # <<>>
       /\ p \in SeqSet(loc.producers)
       /\ ~BookHas(producer_contracts[u], p)
       /\ IF available_capacity <= 0
          THEN UNCHANGED <<resources, transaction_history, utility_contracts,
                           producer_contracts, customer_base, loc, last>>
          ELSE /\ Commit(RecordTransaction(World, u, "buy", contract_amount, price, p))
               /\ loc' = [loc EXCEPT
                            !.remaining_needs = @ - contract_amount,
                            !.producers =
                               IF contracted_capacity + contract_amount >= max_capacity[p]
                               THEN SeqRemove(@, p) ELSE @]
               /\ last' = [op |-> "setup_contract", buyer |-> u, seller |-> p,
                           amount |-> contract_amount, price |-> price]
       /\ UNCHANGED <<pc, steps, profit, max_capacity, current_price,
                      current_production, current_selling_price, renewable_quota,
                      energy_balance, energy_stored, selling_price,
                      max_production_capacity, min_contract_duration, violations,
                      current_carbon_tax, collected, tick_initial, pending, cur>>

(* the loop of one utility ends (needs met, no producer left, or none it has
   not contracted with): on to the next utility, or construction is over *)
SetupNext ==
    LET u == UtilitySeq[loc.ui]
        available_producers ==
            {p \in SeqSet(loc.producers) : ~BookHas(producer_contracts[u], p)}
    IN /\ pc = "setup"
       /\ loc.ui <= Len(UtilitySeq)
       /\ \/ loc.remaining_needs <= 0
          \/ loc.producers = <<>>
          \/ available_producers = {}
       /\ IF loc.ui < Len(UtilitySeq)
          THEN /\ loc' = SetupLoc(loc.ui + 1, customer_base, loc.producers)
               /\ pc' = pc
          ELSE /\ loc' = [ui |-> 0]
               /\ pc' = "idle"
       /\ last' = [op |-> "setup_next"]
       /\ UNCHANGED <<steps, resources, profit, transaction_history,
                      utility_contracts, producer_contracts, customer_base,
                      max_capacity, current_price, current_production,
                      current_selling_price, renewable_quota, energy_balance,
                      energy_stored, selling_price, max_production_capacity,
                      min_contract_duration, violations, current_carbon_tax,
                      collected, tick_initial, pending, cur>>
ledgerVars == <<resources, transaction_history, utility_contracts,
                producer_contracts, customer_base>>
producerVars == <<max_capacity, current_price, min_contract_duration>>
utilityVars == <<current_selling_price, renewable_quota>>
customerVars == <<energy_balance, energy_stored, selling_price, max_production_capacity>>
regulatorVars == <<violations, current_carbon_tax>>

(* calculate_market_concentration, lines 49-68, as the fraction n/d *)
SumSquares == SumOver([p \in Producers |-> max_capacity[p] * max_capacity[p]], Producers)
MarketConcentration ==
    IF TotalCapacity = 0 THEN [n |-> 0, d |-> 1]
    ELSE [n |-> SumSquares, d |-> TotalCapacity * TotalCapacity]

(* the dict returned at lines 437-471.  No utility ever stores energy (the
   storage strategies other than 'maintain' raise before they store), so
   total_energy_stored is 0; available_producers repeats the capacity, price
   and is_renewable entries of producers. *)
MarketState ==
    [total_supply |-> TotalSupply,
     total_demand |-> TotalDemand,
     total_production |-> TotalProduction,
     total_energy_stored |-> 0,
     average_price |-> AveragePrice,
     average_spot_price |-> AverageSpotPrice,
     renewable_ratio |-> RenewableRatio,
     market_concentration |-> MarketConcentration,
     carbon_tax_rate |-> current_carbon_tax,
     total_capacity |-> TotalCapacity,
     producers |-> [p \in Producers |->
                      [capacity |-> max_capacity[p], price |-> current_price[p],
                       production |-> current_production[p],
                       is_renewable |-> is_renewable(p)]],
     utilities |-> [u \in Utilities |->
                      [selling_price |-> current_selling_price[u],
                       renewable_ratio |-> UtilityRenewableRatio(u),
                       energy_supply |-> BookSum(producer_contracts[u]),
                       energy_demand |-> CustomerAmounts(customer_base[u])]],
     offers |-> Offers]

(* ---------------- the tick: EnergyMarketModel.step_async ---------------- *)
(* lines 489-493: profit += resources - initial_resources[agent] *)
ProfitUpdate(prof, now, initial) ==
    [a \in DOMAIN prof |-> prof[a] + (now[a] - initial[a])]

(* lines 473-497: snapshot, initial_resources, the agents' step_async tasks
   (EnergyMarketAgent.step_async is `pass` and no agent overrides it), the
   profit update and the data collection; schedule.step() follows *)
StepAsync ==
    LET initial == resources
        after_tasks == resources
    IN /\ pc = "idle"
       /\ collected < MaxStarts
       /\ profit' = ProfitUpdate(profit, after_tasks, initial)
       /\ tick_initial' = [resources |-> initial,
                           first |-> IF steps = 0 THEN initial ELSE tick_initial.first,
                           market_state |-> MarketState,
                           report |-> [Resources |-> after_tasks,
                                       Profit |-> ProfitUpdate(profit, after_tasks, initial)]]
       /\ collected' = collected + 1
       /\ pending' = Agents
       /\ pc' = "schedule"
       /\ last' = [op |-> "step_async"]
       /\ UNCHANGED <<steps, ledgerVars, producerVars, utilityVars, customerVars,
                      regulatorVars, current_production, cur, loc>>

(* ---------------- ConsumerAgent ---------------- *)
(* purchase_energy, lines 57-75 *)
PurchaseEnergy(W, eb, c, seller_id, amount, price) ==
    LET total_cost == amount * price
    IN IF total_cost > W.res[c]
       THEN [success |-> FALSE, W |-> W, eb |-> eb]
       ELSE [success |-> TRUE,
             W |-> RecordTransaction([W EXCEPT !.res = UpdateResources(W.res, c, -total_cost)],
                                     c, "buy", amount, price, seller_id),
             eb |-> [eb EXCEPT ![c] = @ + amount]]

NoOffer == [seller_id |-> NoAgent, price |-> 0, amount |-> 0]

(* ---------------- LLMDecisionMaker (utils/llm_decision.py) ---------------- *)
(* What llm.invoke and parser.parse can do with one consumer prompt (lines
   111-128): "ok", the answer parses into the decision; "unparsable", the
   answer, which may well name an offer, does not validate; "error", the call
   raises (a timeout raised by the client included) and the decision is the
   one the model would have given. *)
ConsumerReplies ==
    [kind : {"ok", "unparsable", "error"},
     decision : {[best_offer |-> o, best_score |-> 80] : o \in Offers}
                  \cup {[best_offer |-> NoOffer, best_score |-> -1]}]

(* get_consumer_decision, lines 138-141: default_response *)
DefaultConsumerDecision == [best_offer |-> NoOffer, best_score |-> -1]

(* a call that hands on whatever the model said *)
UncheckedLLMCall(reply, default_response) == reply.decision

(* _safe_llm_call, lines 68-128 *)
SafeLLMCall(reply, default_response) ==
    IF reply.kind = "ok" THEN reply.decision ELSE default_response

(* get_consumer_decision, lines 130-160 *)
GetConsumerDecision(reply) == SafeLLMCall(reply, DefaultConsumerDecision)

(* consumer.py, lines 112-115: the offer the step goes on with *)
ChosenOffer(decision) ==
    IF decision.best_offer # NoOffer /\ decision.best_score > 0
    THEN decision.best_offer
    ELSE NoOffer

(* step, lines 89-122; the decision names one of the market's offers or none *)
ConsumerStep(c, best_offer) ==
    LET eb0 == [energy_balance EXCEPT ![c] = 0]
        amount == Min(energy_needs[c], best_offer.amount)
        r == IF best_offer = NoOffer
             THEN [success |-> FALSE, W |-> World, eb |-> eb0]
             ELSE PurchaseEnergy(World, eb0, c, best_offer.seller_id, amount, best_offer.price)
    IN /\ pc = "schedule"
       /\ cur = NoAgent
       /\ steps < MaxTicks
       /\ c \in pending \cap Consumers
       /\ best_offer \in Offers \cup {NoOffer}
       /\ Commit(r.W)
       /\ energy_balance' = r.eb
       /\ pending' = pending \ {c}
       /\ last' = IF best_offer = NoOffer THEN [op |-> "consumer_step"]
                  ELSE [op |-> "purchase_energy", buyer |-> c,
                        seller |-> best_offer.seller_id, amount |-> amount,
                        price |-> best_offer.price, success |-> r.success]
       /\ UNCHANGED <<pc, steps, profit, producerVars, utilityVars, energy_stored,
                      selling_price, max_production_capacity, regulatorVars,
                      current_production, collected, tick_initial, cur, loc>>

(* ---------------- ProsumerAgent ---------------- *)
(* calculate_production for "solar": capacity * sin(pi*t/24)^2 * weather, the
   weather factor in [0.6, 1.0]; sin^2 in thousandths for the first hours,
   the production in whole units of energy *)
SinSqMilli(t) ==
    IF t = 0 THEN 0 ELSE IF t = 1 THEN 17 ELSE IF t = 2 THEN 67
    ELSE IF t = 3 THEN 146 ELSE 250
CalculateProduction(s) ==
    LET top == max_production_capacity[s] * SinSqMilli(steps % 24)
    IN ((6 * top) \div 10000) .. (top \div 1000)

(* consider_upgrade, lines 128-151 *)
RECURSIVE TotalVolume(_)
TotalVolume(h) == IF h = <<>> THEN 0 ELSE h[1].amount + TotalVolume(Tail(h))

ProsumerUpgrades(s, res) ==
    /\ res[s] >= prosumer_upgrade_cost * Unit * 2
    /\ 10 * TotalVolume(transaction_history[s])
          > 8 * max_production_capacity[s] * Max(1, Len(transaction_history[s]))
    /\ (prosumer_upgrade_cost * Unit) \div 30
          < prosumer_upgrade_capacity_increase * selling_price[s]

ProsumerDecisions ==
    [use_storage : {0, 12}, store_amount : {12}, consider_upgrade : BOOLEAN]

(* step, lines 186-210: the decision's use of the storage, the production
   consumed, and the storing of what is left over *)
ProsumerStorage(s, production, d) ==
    LET energy_from_storage == Min(d.use_storage, energy_stored[s])
        needed1 == energy_needs[s] - energy_from_storage
        stored1 == energy_stored[s] - energy_from_storage
        energy_from_production == Min(needed1, production)
        remaining1 == production - energy_from_production
        amount_to_store ==
            IF remaining1 > 0
            THEN Min(Min(d.store_amount, remaining1), prosumer_storage_capacity - stored1)
            ELSE 0
    IN [energy_stored |-> stored1 + amount_to_store,
        remaining_production |-> remaining1 - amount_to_store]

(* store_energy, lines 85-94 *)
StoreEnergy(stored, amount) ==
    LET space_available == prosumer_storage_capacity - stored
        amount_stored == Min(amount, space_available)
    IN [energy_stored |-> stored + amount_stored, excess |-> amount - amount_stored]

(* use_stored_energy, lines 96-104 *)
UseStoredEnergy(stored, amount) ==
    LET amount_used == Min(amount, stored)
    IN [energy_stored |-> stored - amount_used, used |-> amount_used]

(* step, lines 170-224.  add_energy_offer (line 215) is no method of the
   model: the step is defined where no production is left over to offer *)
ProsumerStep(s, production, d) ==
    LET res1 == UpdateResources(resources, s,
                    -ExactDiv(max_production_capacity[s] * Unit * 5, 100))
        storage == ProsumerStorage(s, production, d)
        stored2 == storage.energy_stored
        remaining2 == storage.remaining_production
        upgrade == d.consider_upgrade /\ ProsumerUpgrades(s, res1)
    IN /\ pc = "schedule"
       /\ cur = NoAgent
       /\ steps < MaxTicks
       /\ s \in pending \cap Prosumers
       /\ production \in CalculateProduction(s)
       /\ d \in ProsumerDecisions
       /\ remaining2 <= 0
       /\ current_production' = [current_production EXCEPT ![s] = production]
       /\ energy_stored' = [energy_stored EXCEPT ![s] = stored2]
       /\ resources' = IF upgrade
                       THEN UpdateResources(res1, s, -(prosumer_upgrade_cost * Unit))
                       ELSE res1
       /\ max_production_capacity' =
             IF upgrade
             THEN [max_production_capacity EXCEPT ![s] = @ + prosumer_upgrade_capacity_increase]
             ELSE max_production_capacity
       /\ pending' = pending \ {s}
       /\ last' = [op |-> "prosumer_step", agent |-> s]
       /\ UNCHANGED <<pc, steps, profit, transaction_history, utility_contracts,
                      producer_contracts, customer_base, producerVars, utilityVars,
                      energy_balance, selling_price, regulatorVars, collected,
                      tick_initial, cur, loc>>
(* ---------------- EnergyProducerAgent ---------------- *)
(* maintain_facility, lines 239-249 (production_efficiency is read by no
   step and is left out) *)
MaintainFacility(res, p) ==
    UpdateResources(res, p, -ExactDiv(max_capacity[p] * Unit * 2, 100))

ProductionLevels == {90}
ProducerPrices == {30 * Unit, 250 * Unit}
ProducerDecisions ==
    [production_level : ProductionLevels, price : ProducerPrices,
     consider_upgrade : BOOLEAN]

(* step, lines 265-283: maintenance and the decision applied *)
ProducerBegin(p, d) ==
    /\ pc = "schedule"
    /\ cur = NoAgent
    /\ steps < MaxTicks
    /\ p \in pending \cap Producers
    /\ d \in ProducerDecisions
    /\ resources' = MaintainFacility(resources, p)
    /\ current_production' = [current_production EXCEPT ![p] = Min(d.production_level, max_capacity[p])]
    /\ current_price' = [current_price EXCEPT ![p] = d.price]
    /\ cur' = p
    /\ pc' = "fulfill"
    /\ loc' = [consider_upgrade |-> d.consider_upgrade]
    /\ last' = [op |-> "maintain_facility", agent |-> p]
    /\ UNCHANGED <<steps, profit, transaction_history, utility_contracts,
                   producer_contracts, customer_base, max_capacity,
                   min_contract_duration, utilityVars, customerVars, regulatorVars,
                   collected, tick_initial, pending>>

(* fulfill_contracts, lines 189-211, over the book's keys in order.  The
   entry read for a key is the dict held before record_transaction replaced
   it (base.py:69-78) with a fresh one; the decrement of line 207 lands on
   the dict that was read, which no book holds any more. *)
RECURSIVE FulfillLoop(_, _, _, _)
FulfillLoop(W, p, keys, expired) ==
    IF keys = <<>> THEN [W |-> W, expired |-> expired]
    ELSE LET utility_id == Head(keys)
             contract == BookGet(W.ucon[p], utility_id)
         IN IF contract.remaining_duration <= 0
            THEN FulfillLoop(W, p, Tail(keys), Append(expired, utility_id))
            ELSE LET W1 == RecordTransaction(W, p, "sell", contract.amount,
                                             contract.price, utility_id)
                     W2 == [W1 EXCEPT !.res = UpdateResources(@, p, contract.amount * contract.price)]
                 IN FulfillLoop(W2, p, Tail(keys), expired)

RECURSIVE DeleteAll(_, _)
DeleteAll(b, keys) == IF keys = <<>> THEN b ELSE DeleteAll(BookDel(b, Head(keys)), Tail(keys))

FulfillContracts(W, p) ==
    LET keys == [i \in DOMAIN W.ucon[p] |-> W.ucon[p][i].key]
        r == FulfillLoop(W, p, keys, <<>>)
    IN [r.W EXCEPT !.ucon[p] = DeleteAll(@, r.expired)]

ProducerFulfill ==
    /\ pc = "fulfill"
    /\ Commit(FulfillContracts(World, cur))
    /\ pc' = "upgrade"
    /\ last' = [op |-> "fulfill_contracts", agent |-> cur,
                before |-> utility_contracts[cur]]
    /\ UNCHANGED <<steps, profit, producerVars, utilityVars, customerVars,
                   regulatorVars, current_production, collected, tick_initial,
                   pending, cur, loc>>

(* consider_upgrade, lines 214-237 *)
ProducerUpgrades(p) ==
    /\ resources[p] >= producer_upgrade_cost * Unit * 2
    /\ 10 * TotalVolume(transaction_history[p])
          > 8 * max_capacity[p] * Max(1, Len(transaction_history[p]))
    /\ (producer_upgrade_cost * Unit) \div 60
          < producer_upgrade_capacity_increase * current_price[p]

(* step, lines 285-292: the upgrade the decision asks for, and the step ends *)
ProducerEnd ==
    LET upgrade == loc.consider_upgrade /\ ProducerUpgrades(cur)
    IN /\ pc = "upgrade"
       /\ resources' = IF upgrade
                       THEN UpdateResources(resources, cur, -(producer_upgrade_cost * Unit))
                       ELSE resources
       /\ max_capacity' = IF upgrade
                          THEN [max_capacity EXCEPT ![cur] = @ + producer_upgrade_capacity_increase]
                          ELSE max_capacity
       /\ pending' = pending \ {cur}
       /\ cur' = NoAgent
       /\ pc' = "schedule"
       /\ loc' = [ui |-> 0]
       /\ last' = [op |-> "consider_upgrade", agent |-> cur, upgraded |-> upgrade]
       /\ UNCHANGED <<steps, profit, transaction_history, utility_contracts,
                      producer_contracts, customer_base, current_price,
                      min_contract_duration, utilityVars, customerVars,
                      regulatorVars, current_production, collected, tick_initial>>
(* the discount without its cap of 10% *)
ContractPriceUncapped(price, amount, capacity) ==
    ExactDiv(ExactDiv(price, 10) * (10 * capacity - 2 * amount), capacity)

(* negotiate_contract, lines 152-187 *)
ContractPrice(price, amount, capacity) ==
    ExactDiv(ExactDiv(price, 10) * (10 * capacity - Min(capacity, 2 * amount)), capacity)

(* capacity taken as free whatever is contracted *)
WholeCapacity(book, capacity) == capacity

AvailableCapacity(book, capacity) == capacity - BookSum(book)

(* a negotiation that never checks the capacity *)
NegotiateUnchecked(book, p, utility_id, amount, duration) ==
    LET contract == Contract(utility_id, amount,
                             ContractPrice(current_price[p], amount, max_capacity[p]),
                             duration, is_renewable(p))
    IN [accepted |-> TRUE, book |-> BookPut(book, utility_id, contract),
        contract |-> contract]

NegotiateContract(book, p, utility_id, amount, duration) ==
    IF amount > AvailableCapacity(book, max_capacity[p])
    THEN [accepted |-> FALSE, book |-> book]
    ELSE LET contract == Contract(utility_id, amount,
                                  ContractPrice(current_price[p], amount, max_capacity[p]),
                                  duration, is_renewable(p))
         IN [accepted |-> TRUE, book |-> BookPut(book, utility_id, contract),
             contract |-> contract]

(* ---------------- UtilityAgent ---------------- *)
(* evaluate_producer_contract, lines 72-105 (persona eco_friendly):
   0.5*(1 - price/avg) + 0.3*renewable_score + 0.2*min(0.2, duration/360) > 0,
   multiplied through by 1800 * avg *)
ScorePositive(contract) ==
    900 * (AveragePrice - contract.price)
      + ((IF contract.is_renewable THEN 216 ELSE 0) + Min(72, contract.duration)) * AveragePrice > 0

UtilityDecisions ==
    {[renewable_target |-> 0, selling_price |-> 100 * Unit, storage_strategy |-> "maintain"],
     [renewable_target |-> 30, selling_price |-> 200 * Unit, storage_strategy |-> "maintain"]}

RECURSIVE RenewableAmount(_)
RenewableAmount(b) ==
    IF b = <<>> THEN 0
    ELSE (IF b[1].is_renewable THEN b[1].amount ELSE 0) + RenewableAmount(Tail(b))

RECURSIVE ExpectedDemand(_)
ExpectedDemand(b) == IF b = <<>> THEN 0 ELSE b[1].avg_consumption + ExpectedDemand(Tail(b))

(* step, lines 283-297, and manage_producer_contracts up to its loop, lines
   107-130.  The storage strategies 'increase' and 'decrease' read keys
   get_market_state does not return: this is the step under a decision
   that keeps 'maintain', UtilityStepRaises the step under the others. *)
UtilityBegin(u, d) ==
    LET total_contracted == BookSum(producer_contracts[u])
        renewable_contracted == RenewableAmount(producer_contracts[u])
    IN /\ pc = "schedule"
       /\ cur = NoAgent
       /\ steps < MaxTicks
       /\ u \in pending \cap Utilities
       /\ d \in UtilityDecisions
       /\ renewable_quota' = [renewable_quota EXCEPT ![u] = d.renewable_target]
       /\ current_selling_price' = [current_selling_price EXCEPT ![u] = d.selling_price]
       /\ cur' = u
       /\ pc' = "contracts"
       /\ loc' = [idx |-> 1,
                  total_contracted |-> total_contracted,
                  renewable_contracted |-> renewable_contracted,
                  renewable_ratio |-> IF total_contracted > 0
                                      THEN [n |-> renewable_contracted, d |-> total_contracted]
                                      ELSE [n |-> 0, d |-> 1],
                  expected_demand |-> ExpectedDemand(customer_base[u])]
       /\ last' = [op |-> "utility_decision", agent |-> u]
       /\ UNCHANGED <<steps, profit, ledgerVars, producerVars, customerVars,
                      regulatorVars, current_production, collected, tick_initial,
                      pending>>

(* decisions whose storage strategy makes the step read
   market_state['available_supply'] or market_state['available_demand'],
   keys get_market_state does not return *)
RaisingUtilityDecisions ==
    {[renewable_target |-> 0, selling_price |-> 100 * Unit, storage_strategy |-> "increase"],
     [renewable_target |-> 0, selling_price |-> 100 * Unit, storage_strategy |-> "decrease"]}

(* step, lines 283-311, under such a decision: quota and price are set
   (lines 296-297), then line 304 or 310 raises KeyError.  Nothing between
   the step and the caller of run_async catches it (RandomActivation.step,
   energy_market.py:473-502, simulation.py:52-83): the run is over. *)
UtilityStepRaises(u, d) ==
    /\ pc = "schedule"
    /\ cur = NoAgent
    /\ steps < MaxTicks
    /\ u \in pending \cap Utilities
    /\ d \in RaisingUtilityDecisions
    /\ renewable_quota' = [renewable_quota EXCEPT ![u] = d.renewable_target]
    /\ current_selling_price' = [current_selling_price EXCEPT ![u] = d.selling_price]
    /\ pc' = "raised"
    /\ last' = [op |-> "raise", agent |-> u, error |-> "KeyError"]
    /\ UNCHANGED <<steps, profit, ledgerVars, producerVars, customerVars,
                   regulatorVars, current_production, collected, tick_initial,
                   pending, cur, loc>>

(* manage_producer_contracts, lines 132-162: one producer of the loop *)
UtilityNegotiate ==
    LET u == cur
        p == ProducerSeq[loc.idx]
        need_renewable == loc.renewable_ratio.n * 100 < renewable_quota[u] * loc.renewable_ratio.d
        desired_amount == Max(0, loc.expected_demand - loc.total_contracted)
        r == NegotiateContract(utility_contracts[p], p, u, desired_amount, contract_duration[u])
    IN /\ pc = "contracts"
       /\ loc.idx <= Len(ProducerSeq)
       /\ UNCHANGED <<pc, steps, profit, resources, transaction_history, customer_base,
                      producerVars, utilityVars, customerVars, regulatorVars,
                      current_production, collected, tick_initial, pending, cur>>
       /\ IF BookHas(producer_contracts[u], p) \/ need_renewable # is_renewable(p)
          THEN /\ loc' = [loc EXCEPT !.idx = @ + 1]
               /\ last' = [op |-> "continue"]
               /\ UNCHANGED <<utility_contracts, producer_contracts>>
          ELSE IF desired_amount <= 0
          THEN /\ loc' = [loc EXCEPT !.idx = Len(ProducerSeq) + 1]
               /\ last' = [op |-> "break"]
               /\ UNCHANGED <<utility_contracts, producer_contracts>>
          ELSE /\ utility_contracts' = [utility_contracts EXCEPT ![p] = r.book]
               /\ LET stored == r.accepted /\ ScorePositive(r.contract)
                  IN /\ producer_contracts' =
                          IF stored
                          THEN [producer_contracts EXCEPT
                                  ![u] = BookPut(@, p, [r.contract EXCEPT !.key = p])]
                          ELSE producer_contracts
                     /\ loc' = [loc EXCEPT
                                  !.idx = @ + 1,
                                  !.total_contracted = IF stored THEN @ + desired_amount ELSE @,
                                  !.renewable_contracted =
                                      IF stored /\ is_renewable(p) THEN @ + desired_amount ELSE @,
                                  !.renewable_ratio =
                                      IF stored /\ is_renewable(p)
                                      THEN [n |-> loc.renewable_contracted + desired_amount,
                                            d |-> loc.total_contracted + desired_amount]
                                      ELSE @]
                     /\ last' = [op |-> "negotiate_contract", producer |-> p,
                                 utility |-> u, amount |-> desired_amount,
                                 duration |-> contract_duration[u],
                                 accepted |-> r.accepted, stored |-> stored,
                                 available |-> AvailableCapacity(utility_contracts[p], max_capacity[p]),
                                 before |-> utility_contracts[p]]

(* update_customer_base, lines 205-224 *)
LastN(h, n) == IF Len(h) <= n THEN h ELSE SubSeq(h, Len(h) - n + 1, Len(h))

RecentPurchases(h, customer_id) ==
    SelectSeq(LastN(h, 24), LAMBDA t : t.counterparty = customer_id)

UpdateCustomerBase(b, h, time) ==
    LET active == SelectSeq(b, LAMBDA c : ~(c.last_purchase < time - 24))
    IN [i \in DOMAIN active |->
          LET recent_purchases == RecentPurchases(h, active[i].key)
          IN IF recent_purchases # <<>>
             THEN [active[i] EXCEPT !.avg_consumption =
                      ExactDiv(TotalVolume(recent_purchases), Len(recent_purchases))]
             ELSE active[i]]

(* step, lines 321-328: the loop is over, the customer base is refreshed *)
UtilityEnd ==
    /\ pc = "contracts"
    /\ loc.idx > Len(ProducerSeq)
    /\ customer_base' = [customer_base EXCEPT
                           ![cur] = UpdateCustomerBase(@, transaction_history[cur], steps)]
    /\ pending' = pending \ {cur}
    /\ cur' = NoAgent
    /\ pc' = "schedule"
    /\ loc' = [ui |-> 0]
    /\ last' = [op |-> "update_customer_base", agent |-> cur]
    /\ UNCHANGED <<steps, profit, resources, transaction_history, utility_contracts,
                   producer_contracts, producerVars, utilityVars, customerVars,
                   regulatorVars, current_production, collected, tick_initial>>
(* ---------------- RegulatorAgent ---------------- *)
max_price_increase_pct == 20
min_renewable_ratio_pct == 30
market_concentration_threshold_pct == 40

RECURSIVE GCD(_, _)
GCD(a, b) == IF b = 0 THEN a ELSE GCD(b, a % b)

(* detect_price_gouging, lines 70-102 *)
PriceThreshold == ExactDiv(AveragePrice * (100 + max_price_increase_pct), 100)

RECURSIVE DetectOver(_, _, _)
DetectOver(ids, prices, kind) ==
    IF ids = <<>> THEN <<>>
    ELSE (IF prices[Head(ids)] > PriceThreshold
          THEN <<[agent_id |-> Head(ids), type |-> kind, price |-> prices[Head(ids)],
                  threshold |-> PriceThreshold]>>
          ELSE <<>>) \o DetectOver(Tail(ids), prices, kind)

DetectPriceGouging ==
    DetectOver(ProducerSeq, current_price, "producer")
      \o DetectOver(UtilitySeq, current_selling_price, "utility")

(* a fraction in lowest terms *)
Reduced(f) == LET g == GCD(f.n, f.d) IN [n |-> f.n \div g, d |-> f.d \div g]

(* adjust_carbon_tax, lines 104-120; the rate and the ratio are fractions in
   lowest terms.  The ratio is the double nearest to n/d; the double 0.3 is the
   one nearest to 3/10, so "ratio < min_renewable_ratio" is n/d < 3/10, while
   the product min_renewable_ratio * 1.5 rounds to 0.44999999999999996, the
   double just below the one nearest to 9/20, so "ratio > min * 1.5" holds
   of every n/d >= 9/20. *)
AdjustCarbonTax(tax, ratio) ==
    LET t1 == IF ratio.n * 100 < min_renewable_ratio_pct * ratio.d
              THEN Reduced([n |-> tax.n * 11, d |-> tax.d * 10])
              ELSE IF ratio.n * 1000 >= min_renewable_ratio_pct * 15 * ratio.d
              THEN Reduced([n |-> tax.n * 19, d |-> tax.d * 20])
              ELSE tax
    IN IF t1.n < base_carbon_tax * t1.d THEN [n |-> base_carbon_tax, d |-> 1] ELSE t1

(* (x.n/x.d - pct/100) * factor currency units, in 1/Unit *)
ExcessTimes(x, pct, factor) ==
    LET n == 100 * x.n - pct * x.d
        d == 100 * x.d
        g == GCD(factor * Unit, d)
    IN ExactDiv(n * ((factor * Unit) \div g), d \div g)

(* calculate_fine_amount, lines 135-157 *)
CalculateFineAmount(violation) ==
    IF violation.type = "price_gouging"
    THEN (violation.price - violation.threshold) * 2
    ELSE IF violation.type = "market_concentration"
    THEN ExcessTimes(violation.concentration, market_concentration_threshold_pct, 10000)
    ELSE IF violation.type = "renewable_quota"
    THEN -ExcessTimes(violation.ratio, min_renewable_ratio_pct, 5000)
    ELSE 0

(* issue_fine, lines 122-133 *)
IssueFine(W, agent_id, amount) ==
    IF agent_id \in Agents
    THEN RecordTransaction([W EXCEPT !.res = UpdateResources(@, agent_id, -amount)],
                           Regulator, "fine", amount, 1, agent_id)
    ELSE W
(* enforce_regulations, lines 165-174: the price violations in turn *)
RECURSIVE FinePrices(_, _, _)
FinePrices(R, found, time) ==
    IF found = <<>> THEN R
    ELSE LET violation == Head(found)
             fine_amount == CalculateFineAmount(violation)
         IN FinePrices(
              [W |-> IssueFine(R.W, violation.agent_id, fine_amount),
               V |-> [R.V EXCEPT !.price_gouging =
                        Append(@, [time |-> time, agent_id |-> violation.agent_id,
                                   amount |-> fine_amount])]],
              Tail(found), time)

(* sorted(..., key=capacity, reverse=True): stable, largest first *)
RECURSIVE SortedByCapacity(_)
SortedByCapacity(ids) ==
    IF ids = <<>> THEN <<>>
    ELSE LET best == CHOOSE i \in DOMAIN ids :
                        /\ \A j \in DOMAIN ids : max_capacity[ids[j]] <= max_capacity[ids[i]]
                        /\ \A j \in 1..(i - 1) : max_capacity[ids[j]] < max_capacity[ids[i]]
         IN <<ids[best]>> \o SortedByCapacity(SeqRemove(ids, ids[best]))

(* lines 176-196: the two largest producers *)
RECURSIVE FineConcentration(_, _, _)
FineConcentration(R, ids, time) ==
    IF ids = <<>> THEN R
    ELSE LET fine_amount == CalculateFineAmount(
                                [type |-> "market_concentration",
                                 concentration |-> MarketConcentration])
         IN FineConcentration(
              [W |-> IssueFine(R.W, Head(ids), fine_amount),
               V |-> [R.V EXCEPT !.market_concentration =
                        Append(@, [time |-> time, agent_id |-> Head(ids),
                                   amount |-> fine_amount])]],
              Tail(ids), time)

(* a quota check that fines every utility, whatever its ratio *)
RECURSIVE FineQuotaAll(_, _, _)
FineQuotaAll(R, ids, time) ==
    IF ids = <<>> THEN R
    ELSE LET fine_amount == CalculateFineAmount(
                                [type |-> "renewable_quota",
                                 ratio |-> UtilityRenewableRatio(Head(ids))])
         IN FineQuotaAll(
              [W |-> IssueFine(R.W, Head(ids), fine_amount),
               V |-> [R.V EXCEPT !.renewable_quota =
                        Append(@, [time |-> time, agent_id |-> Head(ids),
                                   amount |-> fine_amount])]],
              Tail(ids), time)

(* lines 198-213: every utility below the quota *)
RECURSIVE FineQuota(_, _, _)
FineQuota(R, ids, time) ==
    IF ids = <<>> THEN R
    ELSE LET ratio == UtilityRenewableRatio(Head(ids))
         IN IF ratio.n * 100 < min_renewable_ratio_pct * ratio.d
            THEN LET fine_amount == CalculateFineAmount(
                                        [type |-> "renewable_quota", ratio |-> ratio])
                 IN FineQuota(
                      [W |-> IssueFine(R.W, Head(ids), fine_amount),
                       V |-> [R.V EXCEPT !.renewable_quota =
                                Append(@, [time |-> time, agent_id |-> Head(ids),
                                           amount |-> fine_amount])]],
                      Tail(ids), time)
            ELSE FineQuota(R, Tail(ids), time)

EnforceRegulations(W, V, time) ==
    LET R1 == FinePrices([W |-> W, V |-> V], DetectPriceGouging, time)
        concentration == MarketConcentration
        R2 == IF concentration.n * 100 > market_concentration_threshold_pct * concentration.d
              THEN FineConcentration(R1, SubSeq(SortedByCapacity(ProducerSeq), 1,
                                                Min(2, Len(ProducerSeq))), time)
              ELSE R1
        R3 == IF RenewableRatio.n * 100 < min_renewable_ratio_pct * RenewableRatio.d
              THEN FineQuota(R2, UtilitySeq, time)
              ELSE R2
    IN R3

(* step, lines 228-251.  The three monitoring histories (lines 234-245) are
   appended to and read by nothing; they are left out. *)
RegulatorStep ==
    LET R == EnforceRegulations(World, violations, steps)
    IN /\ pc = "schedule"
       /\ cur = NoAgent
       /\ steps < MaxTicks
       /\ Regulator \in pending
       /\ current_carbon_tax' = AdjustCarbonTax(current_carbon_tax, RenewableRatio)
       /\ Commit(R.W)
       /\ violations' = R.V
       /\ pending' = pending \ {Regulator}
       /\ last' = [op |-> "enforce_regulations", found |-> DetectPriceGouging,
                   threshold |-> PriceThreshold, before |-> violations]
       /\ UNCHANGED <<pc, steps, profit, producerVars, utilityVars, customerVars,
                      current_production, collected, tick_initial, cur, loc>>

(* a clock that advances although agents are still to be stepped *)
AdvanceTimeEarly ==
    /\ pc = "schedule"
    /\ cur = NoAgent
    /\ steps' = steps + 1
    /\ pc' = "idle"
    /\ last' = [op |-> "tick_done"]
    /\ UNCHANGED <<profit, ledgerVars, producerVars, utilityVars, customerVars,
                   regulatorVars, current_production, collected, tick_initial,
                   pending, cur, loc>>

(* RandomActivation.step: every agent has stepped, the clock advances; the
   tick of step_async is over *)
AdvanceTime ==
    /\ pc = "schedule"
    /\ cur = NoAgent
    /\ pending = {}
    /\ steps' = steps + 1
    /\ pc' = "idle"
    /\ last' = [op |-> "tick_done"]
    /\ UNCHANGED <<profit, ledgerVars, producerVars, utilityVars, customerVars,
                   regulatorVars, current_production, collected, tick_initial,
                   pending, cur, loc>>

(* ---------------- EnergyMarketModel.get_market_state as a call ---------------- *)
(* a snapshot that takes the producers' output off the books as it reads it *)
GetMarketStateDraining ==
    /\ pc = "idle"
    /\ last' = [op |-> "get_market_state", state |-> MarketState]
    /\ current_production' = [a \in DOMAIN current_production |-> 0]
    /\ UNCHANGED <<pc, steps, profit, ledgerVars, producerVars, utilityVars,
                   customerVars, regulatorVars, collected, tick_initial,
                   pending, cur, loc>>

(* get_market_state called between two ticks, as the data collector's
   reporters and the simulation driver do; the caller keeps the dict *)
GetMarketState ==
    /\ pc = "idle"
    /\ last' = [op |-> "get_market_state", state |-> MarketState]
    /\ UNCHANGED <<pc, steps, profit, ledgerVars, producerVars, utilityVars,
                   customerVars, regulatorVars, current_production, collected,
                   tick_initial, pending, cur, loc>>

Next ==
    \/ \E p \in Producers : SetupContract(p)
    \/ SetupNext
    \/ StepAsync
    \/ \E c \in Consumers : \E reply \in ConsumerReplies :
          ConsumerStep(c, ChosenOffer(GetConsumerDecision(reply)))
    \/ \E s \in Prosumers : \E x \in CalculateProduction(s) :
          \E d \in ProsumerDecisions : ProsumerStep(s, x, d)
    \/ \E p \in Producers : \E d \in ProducerDecisions : ProducerBegin(p, d)
    \/ ProducerFulfill
    \/ ProducerEnd
    \/ \E u \in Utilities : \E d \in UtilityDecisions : UtilityBegin(u, d)
    \/ \E u \in Utilities : \E d \in RaisingUtilityDecisions : UtilityStepRaises(u, d)
    \/ UtilityNegotiate
    \/ UtilityEnd
    \/ RegulatorStep
    \/ AdvanceTime
    \/ GetMarketState

Spec == Init /\ [][Next]_vars
(* ---------------- direct calls of negotiate_contract ---------------- *)
(* A second specification: producers as constructed, before any contract,
   and callers that request contracts through
   EnergyMarketModel.request_producer_contract (lines 323-342), as
   tests/test_energy_market.py does. *)
MaxCalls == 3
CallCapacities == {60, 100}
CallPrices == {30 * Unit, 50 * Unit}
CallAmounts == {30, 40}
CallDurations == {2, 3}

CallsInit ==
    /\ pc = "calls"
    /\ steps = 0
    /\ resources = initial_resources
    /\ profit = [a \in Traders |-> 0]
    /\ transaction_history = [a \in Agents |-> <<>>]
    /\ utility_contracts = [p \in Producers |-> <<>>]
    /\ producer_contracts = [u \in Utilities |-> <<>>]
    /\ customer_base = [u \in Utilities |-> <<>>]
    /\ \E c \in CallCapacities : max_capacity = [p \in Producers |-> c]
    /\ \E x \in CallPrices : current_price = [p \in Producers |-> x]
    /\ current_production = [a \in Producers \cup Prosumers |-> 0]
    /\ current_selling_price = [u \in Utilities |-> InitialSellingPrice(UtilityIndex(u))]
    /\ renewable_quota = [u \in Utilities |-> 30]
    /\ energy_balance = [c \in Customers |-> 0]
    /\ energy_stored = [s \in Prosumers |-> 0]
    /\ selling_price = [s \in Prosumers |-> 120 * Unit]
    /\ max_production_capacity = prosumer_capacity
    /\ min_contract_duration = configured_min_contract_duration
    /\ violations = [price_gouging |-> <<>>, market_concentration |-> <<>>,
                     renewable_quota |-> <<>>]
    /\ current_carbon_tax = [n |-> base_carbon_tax, d |-> 1]
    /\ collected = 0
    /\ tick_initial = [resources |-> initial_resources, first |-> initial_resources]
    /\ pending = {}
    /\ cur = NoAgent
    /\ loc = [calls |-> 0]
    /\ last = NoLast

RequestProducerContract(p, u, amount, duration) ==
    LET r == NegotiateContract(utility_contracts[p], p, u, amount, duration)
    IN /\ pc = "calls"
       /\ loc.calls < MaxCalls
       /\ utility_contracts' = [utility_contracts EXCEPT ![p] = r.book]
       /\ loc' = [calls |-> loc.calls + 1]
       /\ last' = [op |-> "negotiate_contract", producer |-> p, utility |-> u,
                   amount |-> amount, duration |-> duration,
                   accepted |-> r.accepted, stored |-> FALSE,
                   available |-> AvailableCapacity(utility_contracts[p], max_capacity[p]),
                   before |-> utility_contracts[p]]
       /\ UNCHANGED <<pc, steps, resources, profit, transaction_history,
                      producer_contracts, customer_base, producerVars, utilityVars,
                      customerVars, regulatorVars, current_production, collected,
                      tick_initial, pending, cur>>

CallsNext ==
    \E p \in Producers : \E u \in Utilities : \E amount \in CallAmounts :
       \E duration \in CallDurations : RequestProducerContract(p, u, amount, duration)

SpecCalls == CallsInit /\ [][CallsNext]_vars
(* ---------------- direct calls of adjust_carbon_tax ---------------- *)
(* A third specification: the regulator as constructed, and a caller that
   hands adjust_carbon_tax (regulator.py:104-120) one market state after
   another; of the market state the method reads the renewable ratio only. *)
MaxAdjust == 5
TaxRatios ==
    {[n |-> 0, d |-> 1], [n |-> 3, d |-> 10], [n |-> 2, d |-> 5],
     [n |-> 9, d |-> 20], [n |-> 1, d |-> 2], [n |-> 1, d |-> 1]}

TaxInit ==
    /\ pc = "tax"
    /\ steps = 0
    /\ resources = initial_resources
    /\ profit = [a \in Traders |-> 0]
    /\ transaction_history = [a \in Agents |-> <<>>]
    /\ utility_contracts = [p \in Producers |-> <<>>]
    /\ producer_contracts = [u \in Utilities |-> <<>>]
    /\ customer_base = [u \in Utilities |-> <<>>]
    /\ max_capacity = initial_capacity
    /\ current_price = [p \in Producers |-> InitialCurrentPrice(p)]
    /\ current_production = [a \in Producers \cup Prosumers |-> 0]
    /\ current_selling_price = [u \in Utilities |-> InitialSellingPrice(UtilityIndex(u))]
    /\ renewable_quota = [u \in Utilities |-> 30]
    /\ energy_balance = [c \in Customers |-> 0]
    /\ energy_stored = [s \in Prosumers |-> 0]
    /\ selling_price = [s \in Prosumers |-> 120 * Unit]
    /\ max_production_capacity = prosumer_capacity
    /\ min_contract_duration = configured_min_contract_duration
    /\ violations = [price_gouging |-> <<>>, market_concentration |-> <<>>,
                     renewable_quota |-> <<>>]
    /\ current_carbon_tax = [n |-> base_carbon_tax, d |-> 1]
    /\ collected = 0
    /\ tick_initial = [resources |-> initial_resources, first |-> initial_resources]
    /\ pending = {}
    /\ cur = NoAgent
    /\ loc = [adjustments |-> 0]
    /\ last = NoLast

AdjustTax(ratio) ==
    /\ pc = "tax"
    /\ loc.adjustments < MaxAdjust
    /\ current_carbon_tax' = AdjustCarbonTax(current_carbon_tax, ratio)
    /\ loc' = [adjustments |-> loc.adjustments + 1]
    /\ last' = [op |-> "adjust_carbon_tax", ratio |-> ratio,
                before |-> current_carbon_tax]
    /\ UNCHANGED <<pc, steps, profit, ledgerVars, producerVars, utilityVars,
                   customerVars, violations, current_production, collected,
                   tick_initial, pending, cur>>

TaxNext == \E ratio \in TaxRatios : AdjustTax(ratio)

SpecTax == TaxInit /\ [][TaxNext]_vars

(* ---------------- direct calls of the ledger ---------------- *)
(* A fourth specification: the agents as constructed, before the setup's
   contracts, and callers that use the ledger directly, as
   tests/test_energy_market.py does with purchase_energy (lines 51-55):
   EnergyMarketAgent.record_transaction and ConsumerAgent.purchase_energy
   with amounts and prices of the caller's choice.  record_transaction
   reads attributes of self and of the counterpart that only some classes
   have; the calls are those that raise no AttributeError. *)
MaxRecords == 2
(* a negative amount, an amount every payer can afford at LedgerPrices, and
   one the customers cannot *)
LedgerAmounts == {-5, 10, 30, 150}
LedgerPrices == {100 * Unit}
(* cost calls: the price is the plain multiplier of the callers (1.0 in
   issue_fine); 6000 is more than a customer holds *)
CostAmounts == {-5, 10}
CostPrices == {1, 6000}
CostPayers == {"consumer_0", "producer_0", Regulator}
CostCounterparties == {"consumer_0", "utility_0"}

LedgerInit ==
    /\ pc = "ledger"
    /\ steps = 0
    /\ resources = initial_resources
    /\ profit = [a \in Traders |-> 0]
    /\ transaction_history = [a \in Agents |-> <<>>]
    /\ utility_contracts = [p \in Producers |-> <<>>]
    /\ producer_contracts = [u \in Utilities |-> <<>>]
    /\ customer_base = [u \in Utilities |-> <<>>]
    /\ max_capacity = initial_capacity
    /\ current_price = [p \in Producers |-> InitialCurrentPrice(p)]
    /\ current_production = [a \in Producers \cup Prosumers |-> 0]
    /\ current_selling_price = [u \in Utilities |-> InitialSellingPrice(UtilityIndex(u))]
    /\ renewable_quota = [u \in Utilities |-> 30]
    /\ energy_balance = [c \in Customers |-> 0]
    /\ energy_stored = [s \in Prosumers |-> 0]
    /\ selling_price = [s \in Prosumers |-> 120 * Unit]
    /\ max_production_capacity = prosumer_capacity
    /\ min_contract_duration = configured_min_contract_duration
    /\ violations = [price_gouging |-> <<>>, market_concentration |-> <<>>,
                     renewable_quota |-> <<>>]
    /\ current_carbon_tax = [n |-> base_carbon_tax, d |-> 1]
    /\ collected = 0
    /\ tick_initial = [resources |-> initial_resources, first |-> initial_resources]
    /\ pending = {}
    /\ cur = NoAgent
    /\ loc = [calls |-> 0]
    /\ last = NoLast

(* the classes record_transaction's branches work for: a producer sells to
   a utility (lines 61-87), a customer buys from a utility or a prosumer, a
   utility buys from a producer (lines 89-137), any agent records a cost *)
LedgerCallable(self, ttype, cp) ==
    /\ cp # self
    /\ ttype = "sell" => self \in Producers /\ cp \in Utilities
    /\ ttype = "buy" => \/ self \in Customers /\ cp \in Utilities \cup Prosumers
                        \/ self \in Utilities /\ cp \in Producers
    /\ ttype \notin {"sell", "buy"} => self \in CostPayers /\ cp \in CostCounterparties

(* agent.record_transaction(ttype, amount, price, cp), base.py:33-145 *)
CallRecordTransaction(self, ttype, amount, price, cp) ==
    /\ pc = "ledger"
    /\ loc.calls < MaxRecords
    /\ LedgerCallable(self, ttype, cp)
    /\ Commit(RecordTransaction(World, self, ttype, amount, price, cp))
    /\ loc' = [calls |-> loc.calls + 1]
    /\ last' = [op |-> "record_transaction", agent |-> self, type |-> ttype,
                amount |-> amount, price |-> price, counterparty |-> cp]
    /\ UNCHANGED <<pc, steps, profit, producerVars, utilityVars, customerVars,
                   regulatorVars, current_production, collected, tick_initial,
                   pending, cur>>

(* consumer.purchase_energy(seller_id, amount, price), consumer.py:57-75 *)
CallPurchaseEnergy(c, seller_id, amount, price) ==
    LET r == PurchaseEnergy(World, energy_balance, c, seller_id, amount, price)
    IN /\ pc = "ledger"
       /\ loc.calls < MaxRecords
       /\ c \in Consumers
       /\ seller_id \in Utilities
       /\ Commit(r.W)
       /\ energy_balance' = r.eb
       /\ loc' = [calls |-> loc.calls + 1]
       /\ last' = [op |-> "purchase_energy", agent |-> c, type |-> "buy",
                   amount |-> amount, price |-> price, counterparty |-> seller_id,
                   success |-> r.success]
       /\ UNCHANGED <<pc, steps, profit, producerVars, utilityVars, energy_stored,
                      selling_price, max_production_capacity, regulatorVars,
                      current_production, collected, tick_initial, pending, cur>>

(* a sale that never looks at the supply *)
SellEnergyUnchecked(W, u, customer_id, amount) ==
    [success |-> TRUE, amount |-> amount, raised |-> TRUE,
     W |-> [W EXCEPT !.res = UpdateResources(
                                UpdateResources(W.res, u, amount * current_selling_price[u]),
                                customer_id, -(amount * current_selling_price[u]))]]

(* UtilityAgent.sell_energy, utility.py:225-263.  energy_stored is 0.0 from
   the constructor (line 44) and nothing raises it.  With enough supply the
   method calls record_transaction('sell', ...), whose sell branch moves the
   money (base.py:62-63) and then calls self.is_renewable() (line 64), which
   a utility does not have: AttributeError, nothing is returned, the two
   balances stay changed. *)
SellEnergy(W, u, customer_id, amount) ==
    LET available == 0 + BookSum(W.pcon[u])
        total_value == amount * current_selling_price[u]
    IN IF amount > available
       THEN [success |-> FALSE, amount |-> 0, raised |-> FALSE, W |-> W]
       ELSE [success |-> TRUE, amount |-> amount, raised |-> TRUE,
             W |-> [W EXCEPT !.res = UpdateResources(
                                        UpdateResources(W.res, u, total_value),
                                        customer_id, -total_value)]]

(* utility.sell_energy(customer_id, amount) *)
CallSellEnergy(u, customer_id, amount) ==
    LET r == SellEnergy(World, u, customer_id, amount)
    IN /\ pc = "ledger"
       /\ loc.calls < MaxRecords
       /\ u \in Utilities
       /\ customer_id \in Customers
       /\ Commit(r.W)
       /\ loc' = [calls |-> loc.calls + 1]
       /\ last' = [op |-> "sell_energy", agent |-> u, type |-> "sell",
                   amount |-> amount, price |-> current_selling_price[u],
                   counterparty |-> customer_id, success |-> r.success,
                   sold |-> r.amount, raised |-> r.raised,
                   available |-> BookSum(producer_contracts[u])]
       /\ UNCHANGED <<pc, steps, profit, producerVars, utilityVars, customerVars,
                      regulatorVars, current_production, collected, tick_initial,
                      pending, cur>>

LedgerNext ==
    \/ \E self \in Traders : \E ttype \in {"sell", "buy"} : \E cp \in Traders :
          \E amount \in LedgerAmounts : \E price \in LedgerPrices :
             CallRecordTransaction(self, ttype, amount, price, cp)
    \/ \E self \in CostPayers : \E cp \in CostCounterparties :
          \E amount \in CostAmounts : \E price \in CostPrices :
             CallRecordTransaction(self, "cost", amount, price, cp)
    \/ \E c \in Consumers : \E seller_id \in Utilities :
          \E amount \in LedgerAmounts : \E price \in LedgerPrices :
             CallPurchaseEnergy(c, seller_id, amount, price)
    \/ \E u \in Utilities : \E customer_id \in Customers :
          \E amount \in LedgerAmounts : CallSellEnergy(u, customer_id, amount)

SpecLedger == LedgerInit /\ [][LedgerNext]_vars

(* ---------------- direct calls of the prosumer's storage ---------------- *)
(* A fifth specification: a prosumer as constructed, at the start of the
   day or in its fifth hour, and callers that use store_energy and
   use_stored_energy directly, as tests/test_energy_market.py does (lines
   74-77), and that step the prosumer under decisions of any sign (the
   decision schema bounds no field). *)
MaxStorageCalls == 3
StorageTimes == {0, 4}
StorageAmounts == {-5, 7, 30}
StorageDecisions ==
    [use_storage : {-30, 0, 24}, store_amount : {-5, 12},
     selling_price : {120 * Unit}, consider_upgrade : {FALSE}]

StorageInit ==
    /\ pc = "storage"
    /\ steps \in StorageTimes
    /\ resources = initial_resources
    /\ profit = [a \in Traders |-> 0]
    /\ transaction_history = [a \in Agents |-> <<>>]
    /\ utility_contracts = [p \in Producers |-> <<>>]
    /\ producer_contracts = [u \in Utilities |-> <<>>]
    /\ customer_base = [u \in Utilities |-> <<>>]
    /\ max_capacity = initial_capacity
    /\ current_price = [p \in Producers |-> InitialCurrentPrice(p)]
    /\ current_production = [a \in Producers \cup Prosumers |-> 0]
    /\ current_selling_price = [u \in Utilities |-> InitialSellingPrice(UtilityIndex(u))]
    /\ renewable_quota = [u \in Utilities |-> 30]
    /\ energy_balance = [c \in Customers |-> 0]
    /\ energy_stored = [s \in Prosumers |-> 0]
    /\ selling_price = [s \in Prosumers |-> 120 * Unit]
    /\ max_production_capacity = prosumer_capacity
    /\ min_contract_duration = configured_min_contract_duration
    /\ violations = [price_gouging |-> <<>>, market_concentration |-> <<>>,
                     renewable_quota |-> <<>>]
    /\ current_carbon_tax = [n |-> base_carbon_tax, d |-> 1]
    /\ collected = 0
    /\ tick_initial = [resources |-> initial_resources, first |-> initial_resources]
    /\ pending = {}
    /\ cur = NoAgent
    /\ loc = [calls |-> 0]
    /\ last = NoLast

(* prosumer.store_energy(amount) *)
CallStoreEnergy(s, amount) ==
    LET r == StoreEnergy(energy_stored[s], amount)
    IN /\ pc = "storage"
       /\ loc.calls < MaxStorageCalls
       /\ energy_stored' = [energy_stored EXCEPT ![s] = r.energy_stored]
       /\ loc' = [calls |-> loc.calls + 1]
       /\ last' = [op |-> "store_energy", agent |-> s, amount |-> amount,
                   returned |-> r.excess]
       /\ UNCHANGED <<pc, steps, profit, ledgerVars, producerVars, utilityVars,
                      energy_balance, selling_price, max_production_capacity,
                      regulatorVars, current_production, collected, tick_initial,
                      pending, cur>>

(* prosumer.use_stored_energy(amount) *)
CallUseStoredEnergy(s, amount) ==
    LET r == UseStoredEnergy(energy_stored[s], amount)
    IN /\ pc = "storage"
       /\ loc.calls < MaxStorageCalls
       /\ energy_stored' = [energy_stored EXCEPT ![s] = r.energy_stored]
       /\ loc' = [calls |-> loc.calls + 1]
       /\ last' = [op |-> "use_stored_energy", agent |-> s, amount |-> amount,
                   returned |-> r.used]
       /\ UNCHANGED <<pc, steps, profit, ledgerVars, producerVars, utilityVars,
                      energy_balance, selling_price, max_production_capacity,
                      regulatorVars, current_production, collected, tick_initial,
                      pending, cur>>

(* prosumer.step(), prosumer.py:170-224, under decision d: maintenance, the
   storage, and, when production is left over, the new selling price
   followed by the AttributeError of line 214 (the model has no
   add_energy_offer), which leaves the writes made before it *)
CallProsumerStep(s, production, d) ==
    LET storage == ProsumerStorage(s, production, d)
        raised == storage.remaining_production > 0
    IN /\ pc = "storage"
       /\ loc.calls < MaxStorageCalls
       /\ production \in CalculateProduction(s)
       /\ current_production' = [current_production EXCEPT ![s] = production]
       /\ resources' = UpdateResources(resources, s,
                           -ExactDiv(max_production_capacity[s] * Unit * 5, 100))
       /\ energy_stored' = [energy_stored EXCEPT ![s] = storage.energy_stored]
       /\ selling_price' = IF raised
                           THEN [selling_price EXCEPT ![s] = d.selling_price]
                           ELSE selling_price
       /\ loc' = [calls |-> loc.calls + 1]
       /\ last' = [op |-> "prosumer_step", agent |-> s, decision |-> d,
                   raised |-> raised]
       /\ UNCHANGED <<pc, steps, profit, transaction_history, utility_contracts,
                      producer_contracts, customer_base, producerVars, utilityVars,
                      energy_balance, max_production_capacity, regulatorVars,
                      collected, tick_initial, pending, cur>>

StorageNext ==
    \/ \E s \in Prosumers : \E amount \in StorageAmounts : CallStoreEnergy(s, amount)
    \/ \E s \in Prosumers : \E amount \in StorageAmounts : CallUseStoredEnergy(s, amount)
    \/ \E s \in Prosumers : \E x \in CalculateProduction(s) :
          \E d \in StorageDecisions : CallProsumerStep(s, x, d)

SpecStorage == StorageInit /\ [][StorageNext]_vars

(* ---------------- the registry of agents ---------------- *)
(* A sixth specification: EnergyMarketModel(num_consumers, num_prosumers,
   num_producers, num_utilities) for small sizes, its registry
   market_agents and its schedule as _create_agents leaves them (lines
   168-240), then lookups by get_agent and ticks.  The registry and the
   schedule are held in loc.  Consumers are assigned with
   np.random.choice(utilities) (line 249), which raises on an empty list:
   the sizes are those with which construction completes. *)
MaxPopulation == 2
RegistrySizes ==
    {sz \in [consumers : 0 .. MaxPopulation, prosumers : 0 .. MaxPopulation,
              producers : 0 .. MaxPopulation, utilities : 0 .. MaxPopulation] :
        sz.consumers + sz.prosumers = 0 \/ sz.utilities > 0}

(* ids that share one numbering whatever the kind *)
AgentIdShared(kind, i) == "agent_" \o ToString(i)

(* f"consumer_{i}", f"prosumer_{i}", f"producer_{i}", f"utility_{i}" *)
AgentId(kind, i) == kind \o "_" \o ToString(i)

(* the dict one creation loop fills: unique_id -> agent *)
CreatedAgents(kind, n) ==
    [id \in {AgentId(kind, i) : i \in 0 .. n - 1} |-> [unique_id |-> id, kind |-> kind]]

(* market_agents after _create_agents, lines 168-240 *)
CreateAgents(sz) ==
    [consumers |-> CreatedAgents("consumer", sz.consumers),
     prosumers |-> CreatedAgents("prosumer", sz.prosumers),
     producers |-> CreatedAgents("producer", sz.producers),
     utilities |-> CreatedAgents("utility", sz.utilities),
     regulator |-> [unique_id |-> Regulator, kind |-> "regulator"]]

(* schedule.add in creation order: the ids the scheduler holds *)
ScheduledIds(sz) ==
    [i \in 1 .. sz.consumers |-> AgentId("consumer", i - 1)]
      \o [i \in 1 .. sz.prosumers |-> AgentId("prosumer", i - 1)]
      \o [i \in 1 .. sz.producers |-> AgentId("producer", i - 1)]
      \o [i \in 1 .. sz.utilities |-> AgentId("utility", i - 1)]
      \o <<Regulator>>

NoneAgent == [unique_id |-> NoAgent, kind |-> "None"]

(* get_agent, lines 300-315: the dicts in insertion order, then the
   regulator *)
GetAgent(market_agents, agent_id) ==
    IF agent_id \in DOMAIN market_agents.consumers THEN market_agents.consumers[agent_id]
    ELSE IF agent_id \in DOMAIN market_agents.prosumers THEN market_agents.prosumers[agent_id]
    ELSE IF agent_id \in DOMAIN market_agents.producers THEN market_agents.producers[agent_id]
    ELSE IF agent_id \in DOMAIN market_agents.utilities THEN market_agents.utilities[agent_id]
    ELSE IF market_agents.regulator.unique_id = agent_id THEN market_agents.regulator
    ELSE NoneAgent

LookupIds ==
    {"consumer_0", "consumer_1", "consumer_2", "prosumer_1", "producer_0",
     "utility_1", "utility_2", "regulator", "agent_0", "consumer", ""}

RegistryInit ==
    /\ pc = "registry"
    /\ steps = 0
    /\ resources = initial_resources
    /\ profit = [a \in Traders |-> 0]
    /\ transaction_history = [a \in Agents |-> <<>>]
    /\ utility_contracts = [p \in Producers |-> <<>>]
    /\ producer_contracts = [u \in Utilities |-> <<>>]
    /\ customer_base = [u \in Utilities |-> <<>>]
    /\ max_capacity = initial_capacity
    /\ current_price = [p \in Producers |-> InitialCurrentPrice(p)]
    /\ current_production = [a \in Producers \cup Prosumers |-> 0]
    /\ current_selling_price = [u \in Utilities |-> InitialSellingPrice(UtilityIndex(u))]
    /\ renewable_quota = [u \in Utilities |-> 30]
    /\ energy_balance = [c \in Customers |-> 0]
    /\ energy_stored = [s \in Prosumers |-> 0]
    /\ selling_price = [s \in Prosumers |-> 120 * Unit]
    /\ max_production_capacity = prosumer_capacity
    /\ min_contract_duration = configured_min_contract_duration
    /\ violations = [price_gouging |-> <<>>, market_concentration |-> <<>>,
                     renewable_quota |-> <<>>]
    /\ current_carbon_tax = [n |-> base_carbon_tax, d |-> 1]
    /\ collected = 0
    /\ tick_initial = [resources |-> initial_resources, first |-> initial_resources]
    /\ pending = {}
    /\ cur = NoAgent
    /\ \E sz \in RegistrySizes :
          loc = [sizes |-> sz, market_agents |-> CreateAgents(sz),
                 schedule |-> ScheduledIds(sz)]
    /\ last = NoLast

(* model.get_agent(agent_id) *)
CallGetAgent(agent_id) ==
    /\ pc = "registry"
    /\ last' = [op |-> "get_agent", agent_id |-> agent_id,
                returned |-> GetAgent(loc.market_agents, agent_id)]
    /\ UNCHANGED <<pc, steps, profit, ledgerVars, producerVars, utilityVars,
                   customerVars, regulatorVars, current_production, collected,
                   tick_initial, pending, cur, loc>>

(* one tick, step_async and schedule.step(), as far as the registry and the
   schedule go: every scheduled agent is stepped, none is added or removed
   (no step calls schedule.add or schedule.remove or writes market_agents) *)
RegistryTick ==
    /\ pc = "registry"
    /\ steps < MaxStarts
    /\ steps' = steps + 1
    /\ last' = [op |-> "tick", stepped |-> SeqSet(loc.schedule)]
    /\ UNCHANGED <<pc, profit, ledgerVars, producerVars, utilityVars,
                   customerVars, regulatorVars, current_production, collected,
                   tick_initial, pending, cur, loc>>

RegistryNext ==
    \/ \E agent_id \in LookupIds : CallGetAgent(agent_id)
    \/ RegistryTick

SpecRegistry == RegistryInit /\ [][RegistryNext]_vars

(* ---------------- the initial contracts alone ---------------- *)
(* A seventh specification: construction with producers of several
   capacities, so that the customers' needs (36 and 24) are below, at and
   above what the producers can supply, and the contract loop of lines
   259-298 run to its end.  The loop is straight-line code inside
   __init__: it keeps running while a pass is possible. *)
SetupCapacities == {10, 40, 50}

SetupInit ==
    /\ pc = "setup"
    /\ steps = 0
    /\ resources = initial_resources
    /\ profit = [a \in Traders |-> 0]
    /\ transaction_history = [a \in Agents |-> <<>>]
    /\ utility_contracts = [p \in Producers |-> <<>>]
    /\ producer_contracts = [u \in Utilities |-> <<>>]
    /\ \E assign \in [Customers -> Utilities] :
          customer_base = [u \in Utilities |-> InitialCustomers(assign, u, 1)]
    /\ max_capacity \in [Producers -> SetupCapacities]
    /\ current_price = [p \in Producers |-> InitialCurrentPrice(p)]
    /\ current_production = [a \in Producers \cup Prosumers |-> 0]
    /\ current_selling_price = [u \in Utilities |-> InitialSellingPrice(UtilityIndex(u))]
    /\ renewable_quota = [u \in Utilities |-> 30]
    /\ energy_balance = [c \in Customers |-> 0]
    /\ energy_stored = [s \in Prosumers |-> 0]
    /\ selling_price = [s \in Prosumers |-> 120 * Unit]
    /\ max_production_capacity = prosumer_capacity
    /\ min_contract_duration = configured_min_contract_duration
    /\ violations = [price_gouging |-> <<>>, market_concentration |-> <<>>,
                     renewable_quota |-> <<>>]
    /\ current_carbon_tax = [n |-> base_carbon_tax, d |-> 1]
    /\ collected = 0
    /\ tick_initial = [resources |-> initial_resources, first |-> initial_resources]
    /\ pending = {}
    /\ cur = NoAgent
    /\ loc = SetupLoc(1, customer_base, ProducerSeq)
    /\ last = NoLast

SetupStep ==
    \/ \E p \in Producers : SetupContract(p)
    \/ SetupNext

SpecSetup == SetupInit /\ [][SetupStep]_vars /\ WF_vars(SetupStep)

(* ======================= the claims ======================= *)
TotalResources == SumOver(resources, Traders)

(* a trade of value v between buyer b and seller s, as the ledger should
   leave the balances *)
Conserves(b, s, v) ==
    /\ resources'[b] = resources[b] - v
    /\ resources'[s] = resources[s] + v
    /\ TotalResources' = TotalResources

RECURSIVE Delivered(_, _)
Delivered(book, u) ==
    IF book = <<>> THEN 0
    ELSE (IF (u = NoAgent \/ book[1].key = u) /\ book[1].remaining_duration > 0
          THEN book[1].amount * book[1].price ELSE 0) + Delivered(Tail(book), u)

(* C1: every trade conserves resources.  Whether it is a purchase
   (purchase_energy), a contract of the initial setup or the deliveries of
   one fulfill_contracts run, the buyer pays exactly amount * price, the
   seller receives exactly that, and the total of all balances is unchanged. *)
C1_TradesConserve ==
    [][/\ \A c \in Consumers : \A o \in Offers :
             (ConsumerStep(c, o) /\ last'.op = "purchase_energy" /\ last'.success)
                => Conserves(c, o.seller_id, last'.amount * o.price)
       /\ \A p \in Producers :
             (SetupContract(p) /\ last'.op = "setup_contract" /\ resources' # resources)
                => Conserves(last'.buyer, p, last'.amount * last'.price)
       /\ ProducerFulfill
             => /\ resources'[cur] = resources[cur] + Delivered(utility_contracts[cur], NoAgent)
                /\ \A u \in Utilities :
                      resources'[u] = resources[u] - Delivered(utility_contracts[cur], u)
                /\ TotalResources' = TotalResources]_vars

(* a purchase went through: the state C1 speaks about *)
C1_Witness ==
    /\ last.op = "purchase_energy"
    /\ last.success
    /\ last.amount > 0

RECURSIVE SignedValue(_)
SignedValue(h) ==
    IF h = <<>> THEN 0
    ELSE (IF h[1].type = "sell" THEN h[1].total_value ELSE -h[1].total_value)
         + SignedValue(Tail(h))

(* C2: transactions are the only way resources change.  Every agent's
   resources equal its initial resources plus the signed sum of the values
   in its own transaction history. *)
C2_ResourcesFollowHistory ==
    \A a \in Traders :
        resources[a] = initial_resources[a] + SignedValue(transaction_history[a])

(* a producer has paid maintenance *)
C2_Witness == last.op = "maintain_facility"
(* C3: capacity invariant.  For each producer the amounts of the contracts
   in its book add up to at most its maximum capacity. *)
C3_CapacityInvariant ==
    \A p \in Producers : BookSum(utility_contracts[p]) <= max_capacity[p]

(* a negotiation was accepted by a producer that already held a contract *)
C3_Witness ==
    /\ last.op = "negotiate_contract"
    /\ last.accepted
    /\ last.before # <<>>
    /\ Len(utility_contracts[last.producer]) >= 2

(* C4: contract monotonicity.  One run of fulfill_contracts lowers the
   remaining duration of every contract that had remaining duration > 0 by
   exactly 1: the contract is still in the book with one tick less, or has
   left it when none remains. *)
C4_RemainingFallsByOne ==
    [][ProducerFulfill =>
         \A i \in DOMAIN utility_contracts[cur] :
            LET c == utility_contracts[cur][i]
                after == utility_contracts'[cur]
            IN c.remaining_duration > 0 =>
                 IF BookHas(after, c.key)
                 THEN BookGet(after, c.key).remaining_duration = c.remaining_duration - 1
                 ELSE c.remaining_duration = 1]_vars

(* a producer with a live contract ran fulfill_contracts *)
C4_Witness ==
    /\ last.op = "fulfill_contracts"
    /\ \E i \in DOMAIN last.before : last.before[i].remaining_duration > 0

(* C5: contract expiry.  A contract of total duration d has left the book
   once fulfill_contracts has run d times (here d = 1: a fresh one-tick
   contract is gone after the first run), and no run leaves a contract with
   remaining duration 0 in the book. *)
C5_ExpiresAfterDuration ==
    [][ProducerFulfill =>
         /\ \A i \in DOMAIN utility_contracts[cur] :
               LET c == utility_contracts[cur][i]
               IN (c.duration = 1 /\ c.remaining_duration = 1)
                     => ~BookHas(utility_contracts'[cur], c.key)
         /\ \A i \in DOMAIN utility_contracts'[cur] :
               utility_contracts'[cur][i].remaining_duration # 0]_vars

(* a producer holding a fresh one-tick contract ran fulfill_contracts *)
C5_Witness ==
    /\ last.op = "fulfill_contracts"
    /\ \E i \in DOMAIN last.before :
          last.before[i].duration = 1 /\ last.before[i].remaining_duration = 1

(* C6: negotiate_contract rejects exactly the requests whose amount exceeds
   capacity minus the amounts already contracted, and a rejection leaves the
   producer's book, the utility's book and every agent's resources as they
   were. *)
C6_RejectionChangesNothing ==
    [][(UtilityNegotiate /\ last'.op = "negotiate_contract") =>
         LET p == last'.producer
             spare == max_capacity[p] - BookSum(utility_contracts[p])
         IN /\ last'.accepted <=> ~(last'.amount > spare)
            /\ ~last'.accepted =>
                  /\ utility_contracts' = utility_contracts
                  /\ producer_contracts' = producer_contracts
                  /\ resources' = resources]_vars

(* a request was rejected *)
C6_Witness ==
    /\ last.op = "negotiate_contract"
    /\ ~last.accepted
    /\ last.amount > last.available
(* C7: an accepted negotiation prices the contract at
   current_price * (1 - min(0.1, amount / capacity * 0.2)), which lies
   between 90% and 100% of the producer's current price. *)
C7_PriceWithinDiscount ==
    \A p \in Producers : \A i \in DOMAIN utility_contracts[p] :
        LET c == utility_contracts[p][i]
        IN /\ c.price * 10 * max_capacity[p]
                 = current_price[p] * (10 * max_capacity[p] - Min(max_capacity[p], 2 * c.amount))
           /\ 9 * current_price[p] <= 10 * c.price
           /\ c.price <= current_price[p]

(* capacity 100, price 50, amount 30: the contract costs 47 *)
C7_Witness ==
    \E p \in Producers : \E i \in DOMAIN utility_contracts[p] :
        /\ max_capacity[p] = 100
        /\ current_price[p] = 50 * Unit
        /\ utility_contracts[p][i].amount = 30
        /\ utility_contracts[p][i].price = 47 * Unit

(* the call repeats an accepted one: same utility, amount and duration *)
RepeatsCall ==
    /\ last'.op = "negotiate_contract"
    /\ last'.accepted
    /\ BookHas(utility_contracts[last'.producer], last'.utility)
    /\ BookGet(utility_contracts[last'.producer], last'.utility).amount = last'.amount
    /\ BookGet(utility_contracts[last'.producer], last'.utility).duration = last'.duration

(* C8, as stated: a second accepted call with the same producer, utility,
   amount and duration leaves two independent contracts in the producer's
   book, and both amounts count against its capacity. *)
C8_TwoIndependentContracts ==
    [][(CallsNext /\ RepeatsCall) =>
         LET p == last'.producer
         IN /\ Len(utility_contracts'[p]) = Len(utility_contracts[p]) + 1
            /\ BookSum(utility_contracts'[p]) = BookSum(utility_contracts[p]) + last'.amount]_vars

(* C8, amended: the book holds one contract per utility.  A call is accepted
   exactly when its amount fits the capacity left by all contracts held, the
   caller's own included; an accepted call replaces the caller's contract, so
   the book still holds one contract for that utility and only the new amount
   counts against the capacity afterwards; with the producer's price and
   capacity unchanged between the calls, a repeated call leaves the book as
   it was. *)
C8_SecondCallReplaces ==
    [][(CallsNext /\ last'.op = "negotiate_contract") =>
         LET p == last'.producer
             u == last'.utility
             old == IF BookHas(utility_contracts[p], u)
                    THEN BookGet(utility_contracts[p], u).amount ELSE 0
         IN /\ last'.accepted <=>
                 last'.amount <= max_capacity[p] - BookSum(utility_contracts[p])
            /\ last'.accepted =>
                 /\ Cardinality({i \in DOMAIN utility_contracts'[p] :
                                   utility_contracts'[p][i].key = u}) = 1
                 /\ BookSum(utility_contracts'[p])
                       = BookSum(utility_contracts[p]) - old + last'.amount
            /\ RepeatsCall => utility_contracts' = utility_contracts]_vars

(* the same call was accepted a second time *)
C8_Witness ==
    /\ last.op = "negotiate_contract"
    /\ last.accepted
    /\ BookHas(last.before, last.utility)
    /\ BookGet(last.before, last.utility).amount = last.amount
    /\ BookGet(last.before, last.utility).duration = last.duration

(* C9: profit is the cumulative resources delta.  After every completed tick
   each agent's profit equals its resources minus its resources at the start
   of the first tick. *)
C9_ProfitIsResourcesDelta ==
    (pc = "idle" /\ steps >= 1) =>
        \A a \in Traders : profit[a] = resources[a] - tick_initial.first[a]

(* a tick is over and some balance has moved during it *)
C9_Witness ==
    /\ pc = "idle"
    /\ steps >= 1
    /\ resources # tick_initial.first

PriceOf(a) == IF a \in Producers THEN current_price[a] ELSE current_selling_price[a]

Gougers ==
    {a \in Producers \cup Utilities :
        100 * PriceOf(a) > AveragePrice * (100 + max_price_increase_pct)}

(* C10: price gouging.  The regulator flags exactly the producers and
   utilities whose price exceeds average_price * (1 + max_price_increase),
   and fines each of them (price - threshold) * 2.0, a positive amount. *)
C10_GougingFine ==
    [][RegulatorStep =>
         LET new == SubSeq(violations'.price_gouging,
                           Len(violations.price_gouging) + 1,
                           Len(violations'.price_gouging))
         IN /\ {new[i].agent_id : i \in DOMAIN new} = Gougers
            /\ Len(new) = Cardinality(Gougers)
            /\ \A i \in DOMAIN new :
                  /\ 100 * new[i].amount
                        = 2 * (100 * PriceOf(new[i].agent_id)
                                 - AveragePrice * (100 + max_price_increase_pct))
                  /\ new[i].amount > 0]_vars

(* the regulator stepped while some price was over the threshold *)
C10_Witness ==
    /\ last.op = "enforce_regulations"
    /\ last.found # <<>>

(* the entries one regulator step appends to a violation log *)
Appended(before, after) == SubSeq(after, Len(before) + 1, Len(after))

BelowQuota ==
    {u \in Utilities :
        UtilityRenewableRatio(u).n * 100
            < min_renewable_ratio_pct * UtilityRenewableRatio(u).d}

MarketBelowQuota ==
    RenewableRatio.n * 100 < min_renewable_ratio_pct * RenewableRatio.d

(* exactly the utilities below the minimum are fined, (min - ratio) * 5000 *)
QuotaFinesAsStated(new) ==
    /\ {new[i].agent_id : i \in DOMAIN new} = BelowQuota
    /\ Len(new) = Cardinality(BelowQuota)
    /\ \A i \in DOMAIN new :
          LET r == UtilityRenewableRatio(new[i].agent_id)
          IN new[i].amount * 100 * r.d
                = (min_renewable_ratio_pct * r.d - 100 * r.n) * 5000 * Unit

(* C11, as stated: in every tick each utility whose renewable ratio is below
   minRenewableRatio is fined (minRenewableRatio - ratio) * 5000, and no
   utility at or above it is fined. *)
C11_QuotaFines ==
    [][RegulatorStep =>
         QuotaFinesAsStated(Appended(violations.renewable_quota,
                                     violations'.renewable_quota))]_vars

(* C11, amended: the quota is enforced only in a tick whose market-wide
   renewable ratio is below minRenewableRatio; then exactly the utilities
   below it are fined (minRenewableRatio - ratio) * 5000 each.  In a tick
   whose market-wide ratio is at or above it no utility is fined. *)
C11_QuotaFinesWhenMarketBelow ==
    [][RegulatorStep =>
         LET new == Appended(violations.renewable_quota, violations'.renewable_quota)
         IN IF MarketBelowQuota THEN QuotaFinesAsStated(new) ELSE new = <<>>]_vars

(* the regulator fined one utility for its quota and spared another *)
C11_Witness ==
    /\ last.op = "enforce_regulations"
    /\ Appended(last.before.renewable_quota, violations.renewable_quota) # <<>>
    /\ BelowQuota # Utilities

ProducerCapacity == SumOver(max_capacity, Producers)

(* the Herfindahl-Hirschman index of the producers' capacity shares, which
   sum to 1 *)
HerfindahlIndex ==
    IF ProducerCapacity = 0 THEN [n |-> 0, d |-> 1]
    ELSE Reduced([n |-> SumSquares, d |-> ProducerCapacity * ProducerCapacity])

(* S is the two producers of largest capacity, or all when fewer than two *)
TopTwo(S) ==
    /\ S \subseteq Producers
    /\ Cardinality(S) = Min(2, Cardinality(Producers))
    /\ \A a \in S : \A b \in Producers \ S : max_capacity[a] >= max_capacity[b]

(* C12: market concentration.  When the HHI exceeds the threshold exactly the
   two producers of largest capacity are fined, each the full
   (HHI - threshold) * 10000; when it does not, no producer is fined. *)
C12_ConcentrationFines ==
    [][RegulatorStep =>
         LET new == Appended(violations.market_concentration,
                             violations'.market_concentration)
             fined == {new[i].agent_id : i \in DOMAIN new}
         IN IF HerfindahlIndex.n * 100
                  > market_concentration_threshold_pct * HerfindahlIndex.d
            THEN /\ Len(new) = Cardinality(fined)
                 /\ TopTwo(fined)
                 /\ \A i \in DOMAIN new :
                       Reduced([n |-> new[i].amount
                                        + market_concentration_threshold_pct * 100 * Unit,
                                d |-> 10000 * Unit]) = HerfindahlIndex
            ELSE new = <<>>]_vars

(* the regulator fined producers for concentration *)
C12_Witness ==
    /\ last.op = "enforce_regulations"
    /\ Appended(last.before.market_concentration, violations.market_concentration) # <<>>

(* every entry one regulator step appends to the three violation logs *)
NewFines ==
    Appended(violations.price_gouging, violations'.price_gouging)
      \o Appended(violations.market_concentration, violations'.market_concentration)
      \o Appended(violations.renewable_quota, violations'.renewable_quota)

RECURSIVE FinedTotal(_, _)
FinedTotal(log, a) ==
    IF log = <<>> THEN 0
    ELSE (IF Head(log).agent_id = a THEN Head(log).amount ELSE 0)
           + FinedTotal(Tail(log), a)

FinesAgainst(log, a) == SelectSeq(log, LAMBDA e : e.agent_id = a)

(* the cost kinds of record_transaction: everything but a sale or a purchase *)
IsCost(t) == t.type \notin {"sell", "buy"}

(* C13: every fine is a cost transaction against the offender.  One
   regulator step lowers each offender's resources by exactly the amounts
   logged against it in that step, leaves the resources of every agent
   without a logged fine as they were, and appends to the offender's own
   transaction history one cost transaction per logged fine, of the fine's
   amount; each log entry carries the tick of the step. *)
C13_FineIsCostToOffender ==
    [][RegulatorStep =>
         /\ \A e \in {NewFines[i] : i \in DOMAIN NewFines} :
                e.time = steps /\ e.agent_id \in Traders
         /\ \A a \in Traders :
               LET mine == FinesAgainst(NewFines, a)
                   rows == Appended(transaction_history[a], transaction_history'[a])
               IN /\ resources'[a] = resources[a] - FinedTotal(NewFines, a)
                  /\ Len(rows) = Len(mine)
                  /\ \A i \in DOMAIN rows :
                        IsCost(rows[i]) /\ rows[i].amount = mine[i].amount]_vars

(* the regulator stepped and logged a fine of a positive amount *)
C13_Witness ==
    /\ last.op = "enforce_regulations"
    /\ \E k \in {"price_gouging", "market_concentration", "renewable_quota"} :
          \E i \in DOMAIN violations[k] :
             i > Len(last.before[k]) /\ violations[k][i].amount > 0

(* the rate f times k/m, not below the floor *)
Scaled(f, k, m) ==
    IF f.n * k < base_carbon_tax * f.d * m
    THEN [n |-> base_carbon_tax, d |-> 1]
    ELSE Reduced([n |-> f.n * k, d |-> f.d * m])

(* C14: carbon tax.  An adjustment multiplies the rate by 1.1 when the
   renewable ratio is below the target, by 0.95 (the floor being the least
   result) when it is above 1.5 times the target, and leaves the rate as it
   was for every ratio from the target up to 1.5 times the target, that
   ratio itself included; the rate is never below base_carbon_tax. *)
C14_CarbonTaxAdjustment ==
    /\ current_carbon_tax.n >= base_carbon_tax * current_carbon_tax.d
    /\ last.op = "adjust_carbon_tax" =>
          current_carbon_tax =
             IF last.ratio.n * 100 < min_renewable_ratio_pct * last.ratio.d
             THEN Scaled(last.before, 11, 10)
             ELSE IF last.ratio.n * 200 > min_renewable_ratio_pct * 3 * last.ratio.d
             THEN Scaled(last.before, 19, 20)
             ELSE Reduced(last.before)

(* an adjustment at a ratio of exactly 1.5 times the target, the rate being
   above the floor *)
C14_Witness ==
    /\ last.op = "adjust_carbon_tax"
    /\ last.ratio.n * 200 = min_renewable_ratio_pct * 3 * last.ratio.d
    /\ last.before.n * 95 > base_carbon_tax * last.before.d * 100

(* C15: the market concentration of the snapshot is the Herfindahl-Hirschman
   index of the producers: the sum of the squares of their shares of the
   capacity, shares that sum to 1.  It is 0 without capacity, 1 for a single
   producer, 1/N for N producers of equal capacity, and within [0, 1],
   whatever the prosumers' capacity. *)
C15_ConcentrationIsHerfindahl ==
    LET c == MarketConcentration
        N == Cardinality(Producers)
    IN /\ Reduced(c) = HerfindahlIndex
       /\ 0 <= c.n /\ c.n <= c.d
       /\ TotalCapacity = 0 => c.n = 0
       /\ (N = 1 /\ ProducerCapacity > 0) => c.n = c.d
       /\ (\A a, b \in Producers : max_capacity[a] = max_capacity[b]) /\ ProducerCapacity > 0
             => c.n * N = c.d

(* a snapshot the regulator has used, of a market with producing capacity
   in the producers' and in the prosumers' hands *)
C15_Witness ==
    /\ last.op = "enforce_regulations"
    /\ ProducerCapacity > 0
    /\ TotalCapacity > ProducerCapacity

(* the running producer contracts of the utilities, as (utility, position) *)
LiveContracts ==
    {x \in Utilities \X (1..Cardinality(Producers)) :
        /\ x[2] \in DOMAIN producer_contracts[x[1]]
        /\ producer_contracts[x[1]][x[2]].remaining_duration > 0}

(* C16, as stated: the total supply is the sum of the producers' current
   production, the total demand the sum of the energy needs of the consumers
   and the prosumers. *)
C16_SupplyIsProduction ==
    /\ TotalSupply = SumOver(current_production, Producers)
    /\ TotalDemand = SumOver(energy_needs, Customers)

(* C16, amended: the total supply is the sum of the amounts of the
   utilities' producer contracts whose remaining duration is above 0; the
   total demand is the sum of the energy needs of the consumers and the
   prosumers. *)
C16_SupplyIsContracted ==
    /\ TotalSupply = SumOver([x \in LiveContracts |->
                                 producer_contracts[x[1]][x[2]].amount], LiveContracts)
    /\ TotalDemand = SumOver(energy_needs, Customers)

(* utilities hold running contracts while the producers' output differs
   from the contracted amount *)
C16_Witness ==
    /\ LiveContracts # {}
    /\ TotalProduction > 0
    /\ TotalSupply # TotalProduction

(* C17, as stated: the average price is the mean of the selling prices of
   all utilities and all producers together. *)
C17_MeanOfAllSellers ==
    AveragePrice * Cardinality(Utilities \cup Producers)
       = SumOver(current_selling_price, Utilities) + SumOver(current_price, Producers)

(* C17, amended: the average price is the mean of the selling prices of the
   utilities alone, the producers' prices being averaged apart as the
   average spot price; each of the two means is the initial price when
   nobody of its kind exists. *)
C17_MeanOfUtilities ==
    /\ AveragePrice * Cardinality(Utilities) = SumOver(current_selling_price, Utilities)
    /\ AverageSpotPrice * Cardinality(Producers) = SumOver(current_price, Producers)
    /\ MeanPrice(current_selling_price, {}) = initial_price * Unit
    /\ MeanPrice(current_price, {}) = initial_price * Unit

(* a utility has set a new selling price, and the producers' mean price is
   not the utilities' *)
C17_Witness ==
    /\ last.op = "utility_decision"
    /\ AverageSpotPrice # AveragePrice
    /\ AveragePrice # initial_price * Unit

RenewableProducers == {p \in Producers : production_type[p] \in {"solar", "wind", "hydro"}}

(* C18: the renewable ratio is the production of the renewable producers
   divided by the production of all producers, 0 when nothing is produced,
   and within [0, 1]. *)
C18_RenewableRatio ==
    LET r == RenewableRatio
        renewable == SumOver(current_production, RenewableProducers)
        total == SumOver(current_production, Producers)
    IN /\ r.d > 0
       /\ total > 0 => r.n * total = renewable * r.d
       /\ total = 0 => r.n = 0
       /\ 0 <= r.n /\ r.n <= r.d

(* renewable and conventional producers have both produced *)
C18_Witness ==
    /\ RenewableProduction > 0
    /\ RenewableProduction < TotalProduction

(* C19: the snapshot is a pure, repeatable read.  Computing the market
   state changes no agent's resources, profit, contracts, history, prices,
   production or storage, nor the regulator's records or the clock; a
   snapshot taken right after it has every field equal, and so has the one
   taken right before it when nothing was committed in between. *)
C19_SnapshotIsPureRead ==
    [][GetMarketState =>
         /\ UNCHANGED <<steps, resources, profit, transaction_history,
                        utility_contracts, producer_contracts, customer_base,
                        producerVars, utilityVars, customerVars, regulatorVars,
                        current_production>>
         /\ last'.state = MarketState'
         /\ last.op = "get_market_state" => last'.state = last.state]_vars

(* a snapshot taken after a tick in which energy was produced and traded *)
C19_Witness ==
    /\ last.op = "get_market_state"
    /\ steps >= 1
    /\ last.state.total_production > 0
    /\ last.state.total_supply > 0
    /\ \E a \in Traders : transaction_history[a] # <<>>

(* a trader's step commits: an agent other than the regulator is stepping,
   starts to step or has just been stepped by the scheduler, and a field of
   some agent has changed *)
TraderCommits ==
    /\ \/ cur \in Traders
       \/ cur' \in Traders
       \/ (pending \ pending') \cap Traders # {}
    /\ ~UNCHANGED <<ledgerVars, producerVars, utilityVars, customerVars,
                    current_production>>

(* the profit of the running tick has been updated: step_async has
   collected one row more than the clock counts ticks *)
ProfitUpdated == collected > steps

(* C20: the phases of a tick follow one another strictly, Settling last:
   the profit update and the violation detection with its fines come after
   the last committed action of the tick, so no trader commits anything once
   the profit of the tick has been updated or once the regulator has
   stepped, and the clock advances only when every agent has been stepped. *)
C20_SettlingAfterLastCommit ==
    [][/\ TraderCommits /\ pc # "setup" => ~ProfitUpdated /\ Regulator \in pending
       /\ steps' # steps => pending = {}]_vars

(* a consumer buys after the profit update of the tick and after the
   regulator has detected and fined *)
C20_Witness ==
    /\ last.op = "purchase_energy"
    /\ pc = "schedule"
    /\ ProfitUpdated
    /\ Regulator \notin pending

(* the scheduler starts the step of a trader: the agent takes its market
   state (consumer.py:95, prosumer.py:178, producer.py:272, utility.py:287)
   and asks for its decision *)
TraderDecides ==
    /\ pc = "schedule"
    /\ cur = NoAgent
    /\ \/ cur' \in Traders
       \/ (pending \ pending') \cap Traders # {}

(* C21: within one tick every agent decides on the snapshot taken at the
   start of the tick: the market state an agent reads for its decision is
   the one step_async took, and the agent's own resources are those it had
   when the tick began, whatever the other agents have done in the tick. *)
C21_DecisionsFromTickSnapshot ==
    [][TraderDecides =>
         /\ MarketState = tick_initial.market_state
         /\ \A a \in Traders :
               (cur' = a \/ a \in pending \ pending') =>
                  resources[a] = tick_initial.resources[a]]_vars

(* a trader begins its step after another agent's step of the same tick has
   changed the market state *)
C21_Witness ==
    /\ pc = "schedule"
    /\ cur = NoAgent
    /\ pending \cap Traders # {}
    /\ pending # Agents
    /\ MarketState # tick_initial.market_state

(* the agents' unique ids in ascending order *)
AgentsById ==
    <<"consumer_0", "producer_0", "producer_1", "prosumer_0", "regulator",
      "utility_0", "utility_1">>

IdRank(a) == CHOOSE i \in DOMAIN AgentsById : AgentsById[i] = a

(* C22: the actions of a tick are committed one agent at a time in
   ascending order of the agents' ids: whenever the scheduler takes an
   agent to step, every agent with a smaller id has been stepped in this
   tick already. *)
C22_AscendingIdOrder ==
    [][\A a \in pending \ pending' :
          \A b \in pending : IdRank(a) <= IdRank(b)]_vars

(* an agent has been stepped while an agent with a smaller id still waits *)
C22_Witness ==
    /\ pc = "schedule"
    /\ \E a \in Agents \ pending : \E b \in pending : IdRank(b) < IdRank(a)

FailedReplies == {reply \in ConsumerReplies : reply.kind # "ok"}

(* C23: a failing decision call is isolated.  When a consumer's decision
   call raises or its answer does not parse, the consumer acts on the
   default decision, no offer chosen: it buys nothing, so no agent's
   resources, history, contracts, customers, prices, production or storage
   change and the regulator's records stay as they are; only the consumer's
   energy balance is reset, and the scheduler goes on with the agents that
   are left in the tick. *)
C23_FailedDecisionIsolated ==
    [][\A c \in pending \cap Consumers : \A reply \in FailedReplies :
          (c \notin pending' /\ ConsumerStep(c, ChosenOffer(GetConsumerDecision(reply)))) =>
             /\ UNCHANGED <<steps, profit, ledgerVars, producerVars, utilityVars,
                            regulatorVars, current_production, energy_stored,
                            selling_price, max_production_capacity>>
             /\ energy_balance' = [energy_balance EXCEPT ![c] = 0]
             /\ pending' = pending \ {c}
             /\ pc' = "schedule" /\ cur' = NoAgent]_vars

(* the tick is over, the consumer having bought nothing in it while offers
   were on the market *)
C23_Witness ==
    /\ pc = "idle"
    /\ steps = 1
    /\ \A c \in Consumers : transaction_history[c] = <<>> /\ energy_balance[c] = 0
    /\ \E o \in Offers : o.amount > 0

(* C24: an error raised while one agent's action is applied aborts that
   action only: after the error the tick goes on, so the scheduler can step
   the agents that are left or, when none is left, advance the tick
   counter. *)
C24_ErrorAbortsOnlyAction ==
    last.op = "raise" =>
       \/ ENABLED AdvanceTime
       \/ \E a \in pending : ENABLED (pending' = pending \ {a} /\ Next)

(* a utility's step has raised while other agents were still to be stepped *)
C24_Witness ==
    /\ last.op = "raise"
    /\ pending \ {last.agent} # {}
    /\ steps = 0

(* C25: ticks never overlap and the tick counter advances by exactly 1 per
   tick: the counter moves only by 1 and only when every agent of the tick
   has been stepped, between two ticks it equals the number of ticks run,
   at most one tick is under way, and step_async takes the snapshot of the
   next tick only when the tick before it has finished (no agent left to
   step, no step under way, its profit update made, the counter advanced). *)
C25_TicksInSequence ==
    [][/\ steps' \in {steps, steps + 1}
       /\ steps' = steps + 1 =>
             /\ pending = {} /\ cur = NoAgent
             /\ collected = steps + 1
       /\ pc = "idle" => steps = collected
       /\ collected \in {steps, steps + 1}
       /\ collected' # collected =>
             /\ collected' = collected + 1
             /\ pc = "idle" /\ pending = {} /\ cur = NoAgent
             /\ steps = collected
             /\ tick_initial'.market_state = MarketState]_vars

(* the snapshot of the second tick has been taken, after a first tick in
   which the regulator fined and the clock advanced *)
C25_Witness ==
    /\ last.op = "step_async"
    /\ steps = 1
    /\ collected = 2
    /\ pending = Agents
    /\ \E k \in DOMAIN violations : violations[k] # <<>>

(* C26: exactly one report is emitted per tick and it is emitted after
   settling: when a tick is over there are as many rows as ticks, and the
   resources and the profit the tick's row records are those the agents hold
   after the tick's commits, contract ageing and fines. *)
C26_ReportAfterSettling ==
    last.op = "tick_done" =>
       /\ collected = steps
       /\ tick_initial.report.Resources = resources
       /\ tick_initial.report.Profit = profit

(* a tick is over, one row stands for it, and an agent's resources are no
   longer those the row recorded *)
C26_Witness ==
    /\ last.op = "tick_done"
    /\ collected = steps
    /\ \E a \in DOMAIN resources : tick_initial.report.Resources[a] # resources[a]

(* C27: a malformed action is dropped: a buy, sell or cost with a negative
   amount, handed to record_transaction or purchase_energy, changes no
   agent's resources, history, contracts or storage. *)
C27_NegativeAmountDropped ==
    [][(loc'.calls = loc.calls + 1 /\ last'.amount < 0) =>
          UNCHANGED <<resources, transaction_history, utility_contracts,
                      producer_contracts, customer_base, energy_balance,
                      energy_stored>>]_vars

(* a transaction with a negative amount has been recorded and has moved
   money *)
C27_Witness ==
    /\ pc = "ledger"
    /\ last.op \in {"record_transaction", "purchase_energy"}
    /\ last.amount < 0
    /\ \E i \in DOMAIN transaction_history[last.agent] :
          transaction_history[last.agent][i].amount < 0
    /\ resources # initial_resources

(* the agent a recorded transaction charges, and what the ledger charges it:
   the value amount*price of a buy or a sell, the price of any other type
   (base.py:62-63, 90-91, 140) *)
Payer(l) == IF l.type = "sell" THEN l.counterparty ELSE l.agent
Charge(l) == IF l.type \in {"buy", "sell"} THEN l.amount * l.price ELSE l.price * Unit

(* C28: the ledger never rejects for insufficient funds: every call of
   record_transaction, whatever the payer holds, lowers the payer's
   resources by the whole charge and appends the transaction's record to
   the caller's history, so a payer that holds less is left with a negative
   balance. *)
C28_NoRejectionForFunds ==
    [][last'.op = "record_transaction" /\ loc'.calls = loc.calls + 1 =>
          LET l == last'
              before == transaction_history[l.agent]
              after == transaction_history'[l.agent]
          IN /\ Payer(l) \in DOMAIN resources =>
                   resources'[Payer(l)] = resources[Payer(l)] - Charge(l)
             /\ Len(after) = Len(before) + 1
             /\ after[Len(after)].type = l.type
             /\ after[Len(after)].amount = l.amount
             /\ after[Len(after)].price = l.price
             /\ after[Len(after)].total_value = l.amount * l.price]_vars

(* a buy, a sell or a cost was recorded against a payer that held less than
   it was charged: the payer's balance is negative and the record is there *)
C28_Witness ==
    /\ pc = "ledger"
    /\ last.op = "record_transaction"
    /\ last.amount > 0
    /\ Payer(last) \in DOMAIN resources
    /\ resources[Payer(last)] < 0
    /\ resources[Payer(last)] + Charge(last) >= 0
    /\ transaction_history[last.agent] # <<>>

(* C29: a cost transaction touches only the payer: it lowers the paying
   agent's resources, appends one record to the paying agent's history, and
   leaves every other agent's resources and history and every contract book
   unchanged, the agent named as counterparty included. *)
C29_CostTouchesOnlyPayer ==
    [][(/\ last'.op = "record_transaction"
        /\ loc'.calls = loc.calls + 1
        /\ last'.type \notin {"buy", "sell"}) =>
          LET self == last'.agent
          IN /\ self \in DOMAIN resources => resources'[self] < resources[self]
             /\ \A a \in DOMAIN resources \ {self} : resources'[a] = resources[a]
             /\ Len(transaction_history'[self]) = Len(transaction_history[self]) + 1
             /\ SubSeq(transaction_history'[self], 1, Len(transaction_history[self]))
                   = transaction_history[self]
             /\ transaction_history'[self][Len(transaction_history'[self])].counterparty
                   = last'.counterparty
             /\ \A a \in Agents \ {self} :
                   transaction_history'[a] = transaction_history[a]
             /\ UNCHANGED <<utility_contracts, producer_contracts, customer_base>>]_vars

(* a cost has been recorded by a trader against a named counterparty that
   is an agent of the market and holds resources of its own *)
C29_Witness ==
    /\ pc = "ledger"
    /\ last.op = "record_transaction"
    /\ last.type = "cost"
    /\ last.agent \in Traders
    /\ last.counterparty \in Traders
    /\ transaction_history[last.agent] # <<>>
    /\ transaction_history[last.counterparty] = <<>>
    /\ resources[last.counterparty] = initial_resources[last.counterparty]

(* what the two records of one trade have to agree on, seen from the other
   side: the opposite kind, the same amount, price and tick, and a as the
   counterparty *)
Mirrored(r, a) ==
    [type |-> IF r.type = "buy" THEN "sell" ELSE "buy", amount |-> r.amount,
     price |-> r.price, timestamp |-> r.timestamp, counterparty |-> a]
Side(r) ==
    [type |-> r.type, amount |-> r.amount, price |-> r.price,
     timestamp |-> r.timestamp, counterparty |-> r.counterparty]
(* the buys and sells among the records an operation appended to a's
   history that name b *)
NewTrades(a, b) ==
    SelectSeq(Appended(transaction_history[a], transaction_history'[a]),
              LAMBDA r : r.type \in {"buy", "sell"} /\ r.counterparty = b)

(* C30: transaction histories are append-only and mirrored: whatever the
   operation, an agent's history keeps its records as they were and only
   grows at its end, and the buys and sells it gains name an agent whose
   history gains, record for record, the same trades seen from the other
   side: opposite kind, same amount, price and tick, the first agent as
   counterparty. *)
C30_AppendOnlyMirrored ==
    [][transaction_history' # transaction_history =>
         \A a \in Agents :
            /\ Len(transaction_history'[a]) >= Len(transaction_history[a])
            /\ SubSeq(transaction_history'[a], 1, Len(transaction_history[a]))
                  = transaction_history[a]
            /\ \A i \in DOMAIN transaction_history'[a] :
                  transaction_history'[a][i].type \in {"buy", "sell"} =>
                     transaction_history'[a][i].counterparty \in Agents \ {a}
            /\ \A b \in Agents \ {a} :
                  LET mine == NewTrades(a, b)
                      theirs == NewTrades(b, a)
                  IN /\ Len(mine) = Len(theirs)
                     /\ \A i \in DOMAIN mine : Mirrored(mine[i], a) = Side(theirs[i])]_vars

(* a tick is over in which a consumer bought from a utility and a producer
   delivered to one: the four histories hold the records of both trades *)
C30_Witness ==
    /\ last.op = "tick_done"
    /\ \E c \in Consumers : \E u \in Utilities :
          \E i \in DOMAIN transaction_history[c] :
             /\ transaction_history[c][i].type = "buy"
             /\ transaction_history[c][i].counterparty = u
             /\ transaction_history[c][i].timestamp = 0
    /\ \E p \in Producers : \E u \in Utilities :
          \E i \in DOMAIN transaction_history[p] :
             /\ transaction_history[p][i].type = "sell"
             /\ transaction_history[p][i].counterparty = u

(* C31: a successful purchase_energy(seller, amount, price) of a positive
   amount lowers the consumer's resources by exactly amount*price, raises its energy balance
   by amount and appends exactly one transaction to the consumer's
   history. *)
C31_PurchaseChargesOnce ==
    [][(/\ last'.op = "purchase_energy"
        /\ loc'.calls = loc.calls + 1
        /\ last'.amount > 0
        /\ last'.success) =>
          LET c == last'.agent
          IN /\ resources'[c] = resources[c] - last'.amount * last'.price
             /\ energy_balance'[c] = energy_balance[c] + last'.amount
             /\ Len(transaction_history'[c]) = Len(transaction_history[c]) + 1]_vars

(* a purchase of a positive amount has succeeded and is on record *)
C31_Witness ==
    /\ pc = "ledger"
    /\ last.op = "purchase_energy"
    /\ last.success
    /\ last.amount > 0
    /\ energy_balance[last.agent] > 0
    /\ transaction_history[last.agent] # <<>>

(* C32: when the requested amount does not exceed the producer's available
   capacity, negotiate_contract accepts, and the producer's book then holds,
   under the requesting utility, a contract whose amount and duration are
   those requested and whose remaining duration equals the duration. *)
C32_AcceptedAsRequested ==
    [][(/\ last'.op = "negotiate_contract"
        /\ loc'.calls = loc.calls + 1
        /\ last'.amount <= AvailableCapacity(utility_contracts[last'.producer],
                                             max_capacity[last'.producer])) =>
          LET book == utility_contracts'[last'.producer]
          IN /\ last'.accepted
             /\ BookHas(book, last'.utility)
             /\ Cardinality({i \in DOMAIN book : book[i].key = last'.utility}) = 1
             /\ BookGet(book, last'.utility).accepted
             /\ BookGet(book, last'.utility).amount = last'.amount
             /\ BookGet(book, last'.utility).duration = last'.duration
             /\ BookGet(book, last'.utility).remaining_duration = last'.duration]_vars

(* a request within the capacity left by an earlier contract of another
   utility has been accepted *)
C32_Witness ==
    /\ pc = "calls"
    /\ last.op = "negotiate_contract"
    /\ last.accepted
    /\ last.before # <<>>
    /\ ~BookHas(last.before, last.utility)
    /\ BookHas(utility_contracts[last.producer], last.utility)

(* C33: prosumer storage stays within bounds: store_energy(a) stores
   min(a, capacity - stored) and returns the remainder, and after any
   sequence of store_energy, use_stored_energy and prosumer steps, with any
   argument and decision values, 0 <= energy_stored <= storage_capacity. *)
C33_StorageWithinBounds ==
    pc = "storage" =>
       \A s \in Prosumers :
          /\ 0 <= energy_stored[s]
          /\ energy_stored[s] <= prosumer_storage_capacity

(* three calls have run, the last one a store_energy or use_stored_energy
   with a negative argument, and the storage is out of its bounds *)
C33_Witness ==
    /\ pc = "storage"
    /\ loc.calls = MaxStorageCalls
    /\ last.op \in {"store_energy", "use_stored_energy"}
    /\ last.amount < 0
    /\ \E s \in Prosumers : energy_stored[s] \notin 0 .. prosumer_storage_capacity

(* C34: sell_energy fails when supply is insufficient: if the requested
   amount exceeds the utility's stored energy plus the summed amounts of
   its producer contracts, it returns success = False with amount 0, and
   the resources and histories of both parties and the utility's customer
   base are unchanged. *)
C34_InsufficientSupplyRefused ==
    [][(/\ last'.op = "sell_energy"
        /\ loc'.calls = loc.calls + 1
        /\ last'.amount > BookSum(producer_contracts[last'.agent])) =>
          /\ ~last'.success
          /\ last'.sold = 0
          /\ ~last'.raised
          /\ UNCHANGED <<resources, transaction_history, customer_base,
                         producer_contracts, utility_contracts>>]_vars

(* a utility that holds a producer contract was asked for more than the
   contract supplies and has refused *)
C34_Witness ==
    /\ pc = "ledger"
    /\ last.op = "sell_energy"
    /\ ~last.success
    /\ last.available > 0
    /\ last.amount > last.available

(* the ids of all agents in the registry *)
RegisteredIds(market_agents) ==
    DOMAIN market_agents.consumers \cup DOMAIN market_agents.prosumers
      \cup DOMAIN market_agents.producers \cup DOMAIN market_agents.utilities
      \cup {market_agents.regulator.unique_id}

(* C35: the agent population is fixed at setup: after construction with
   sizes (c, p, r, u) the registry holds exactly c consumers, p prosumers,
   r producers, u utilities and one regulator with pairwise distinct ids,
   lookup by id returns the agent with that id, or nothing for an unknown
   id, and no tick adds or removes an agent. *)
C35_PopulationFixed ==
    [][LET reg == loc.market_agents
           sz == loc.sizes
       IN /\ Cardinality(DOMAIN reg.consumers) = sz.consumers
          /\ Cardinality(DOMAIN reg.prosumers) = sz.prosumers
          /\ Cardinality(DOMAIN reg.producers) = sz.producers
          /\ Cardinality(DOMAIN reg.utilities) = sz.utilities
          /\ Cardinality(RegisteredIds(reg))
                = sz.consumers + sz.prosumers + sz.producers + sz.utilities + 1
          /\ SeqSet(loc.schedule) = RegisteredIds(reg)
          /\ Len(loc.schedule) = Cardinality(RegisteredIds(reg))
          /\ \A id \in RegisteredIds(reg) : GetAgent(reg, id).unique_id = id
          /\ last'.op = "get_agent" =>
                IF last'.agent_id \in RegisteredIds(reg)
                THEN last'.returned.unique_id = last'.agent_id
                ELSE last'.returned = NoneAgent
          /\ loc'.market_agents = reg
          /\ loc'.schedule = loc.schedule]_vars

(* a full population has been through a tick, and a lookup has returned a
   second consumer *)
C35_Witness ==
    /\ pc = "registry"
    /\ steps > 0
    /\ loc.sizes = [consumers |-> 2, prosumers |-> 2, producers |-> 2, utilities |-> 2]
    /\ last.op = "get_agent"
    /\ last.agent_id = "consumer_1"
    /\ last.returned.kind = "consumer"

(* C36: a contract only ever links a producer and a utility: every entry of
   a producer's contract book names a utility and every entry of a
   utility's contract book names a producer, and a buy or sell whose
   seller is not a producer or whose buyer is not a utility (a consumer or
   prosumer buying from a utility or a prosumer, a utility selling to a
   customer) creates no contract in any book. *)
C36_ContractsLinkProducerAndUtility ==
    [][/\ \A p \in Producers : BookKeys(utility_contracts'[p]) \subseteq Utilities
       /\ \A u \in Utilities : BookKeys(producer_contracts'[u]) \subseteq Producers
       /\ (\/ last'.op = "purchase_energy"
           \/ last'.op = "sell_energy"
           \/ last'.op = "record_transaction" /\ last'.type = "buy"
                /\ last'.agent \in Customers)
            => UNCHANGED <<utility_contracts, producer_contracts>>]_vars

(* a customer has bought from a utility that holds a contract with a
   producer *)
C36_Witness ==
    /\ pc = "ledger"
    /\ last.op = "record_transaction"
    /\ last.type = "buy"
    /\ last.agent \in Customers
    /\ last.counterparty \in Utilities
    /\ last.amount > 0
    /\ producer_contracts[last.counterparty] # <<>>
    /\ customer_base[last.counterparty] # <<>>

(* C37: the two sides of a contract stay consistent: a producer's book
   holds a contract for utility U exactly when U's book holds a contract
   for that producer, with the same amount, price and remaining duration;
   so a contract that expires and leaves the producer's book also leaves
   the utility's book. *)
C37_BooksAgree ==
    \A p \in Producers : \A u \in Utilities :
        /\ BookHas(utility_contracts[p], u) <=> BookHas(producer_contracts[u], p)
        /\ BookHas(utility_contracts[p], u) /\ BookHas(producer_contracts[u], p) =>
              LET a == BookGet(utility_contracts[p], u)
                  b == BookGet(producer_contracts[u], p)
              IN /\ a.amount = b.amount
                 /\ a.price = b.price
                 /\ a.remaining_duration = b.remaining_duration

(* a producer has accepted a contract and holds it in its book, and the
   utility, having evaluated it, has not stored it *)
C37_Witness ==
    /\ last.op = "negotiate_contract"
    /\ last.accepted
    /\ ~last.stored
    /\ BookHas(utility_contracts[last.producer], last.utility)
    /\ ~BookHas(producer_contracts[last.utility], last.producer)

(* the record the call has just appended to the recording agent's history *)
NewRecord(a) == transaction_history'[a][Len(transaction_history'[a])]

(* the absolute change the step made to an agent's resources.  The
   regulator's are float('inf') and stay so after any update: no finite
   amount was applied to them *)
Applied(a) ==
    IF a \in DOMAIN resources
    THEN IF resources'[a] >= resources[a] THEN resources'[a] - resources[a]
         ELSE resources[a] - resources'[a]
    ELSE 0

(* C38: every recorded transaction states the value that was actually
   applied: for each record appended by record_transaction (buy, sell or
   cost), the absolute change the call made to the recording agent's
   resources equals the record's total_value, which is amount * price. *)
C38_RecordStatesAppliedValue ==
    [][last'.op = "record_transaction" /\ last'.amount > 0 =>
         /\ Len(transaction_history'[last'.agent])
               = Len(transaction_history[last'.agent]) + 1
         /\ NewRecord(last'.agent).total_value = last'.amount * last'.price
         /\ Applied(last'.agent) = NewRecord(last'.agent).total_value]_vars

(* an agent with finite resources has recorded a cost of a positive amount
   whose total_value is not what its resources fell by *)
C38_Witness ==
    /\ pc = "ledger"
    /\ last.op = "record_transaction"
    /\ last.type \notin {"buy", "sell"}
    /\ last.amount > 0
    /\ last.agent \in DOMAIN resources
    /\ transaction_history[last.agent] # <<>>
    /\ transaction_history[last.agent][Len(transaction_history[last.agent])].total_value
         # last.price * Unit

(* producers the utility being set up has no contract with and that have
   capacity to spare, among all producers *)
SpareProducers(u) ==
    {p \in Producers :
        /\ ~BookHas(producer_contracts[u], p)
        /\ AvailableCapacity(utility_contracts[p], max_capacity[p]) > 0}

(* C39: the initial contract setup terminates for every population and
   every choice of producers: construction reaches its end; a utility
   contracts at most once with a producer; each contract amount is
   min(remaining needs, producer's available capacity) and strictly
   positive; no pass of the loop picks a producer without capacity; and
   when a utility's loop ends either its needs are fully covered or no
   producer with spare capacity that it has not contracted with remains. *)
C39_SetupTerminates ==
    /\ <>(pc = "idle")
    /\ [][last'.op = "setup_contract" =>
            /\ ~BookHas(producer_contracts[last'.buyer], last'.seller)
            /\ last'.amount
                 = Min(loc.remaining_needs,
                       AvailableCapacity(utility_contracts[last'.seller],
                                         max_capacity[last'.seller]))
            /\ last'.amount > 0
            /\ BookGet(producer_contracts'[last'.buyer], last'.seller).amount
                 = last'.amount]_vars
    /\ [][last'.op = "setup_next" =>
            \/ loc.remaining_needs <= 0
            \/ SpareProducers(UtilitySeq[loc.ui]) = {}]_vars
    /\ [](pc = "setup" /\ loc.ui <= Len(UtilitySeq) =>
            \A p \in SeqSet(loc.producers) :
               ~BookHas(producer_contracts[UtilitySeq[loc.ui]], p) =>
                  AvailableCapacity(utility_contracts[p], max_capacity[p]) > 0)

(* construction is over, one utility has its needs of 60 only partly
   covered by two contracts, and every producer is fully contracted *)
C39_Witness ==
    /\ pc = "idle"
    /\ steps = 0
    /\ \E u \in Utilities :
          /\ Len(producer_contracts[u]) = 2
          /\ BookSum(producer_contracts[u]) < CustomerAmounts(customer_base[u])
    /\ \A p \in Producers :
          AvailableCapacity(utility_contracts[p], max_capacity[p]) = 0

(* the refusal half of C40: a purchase whose cost exceeds the consumer's
   resources returns False and changes no resources, energy balance or
   history *)
PurchaseRefused ==
    last'.amount * last'.price > resources[last'.agent] =>
        /\ ~last'.success
        /\ UNCHANGED <<resources, energy_balance, transaction_history>>

(* C40: purchase_energy refuses a purchase the consumer cannot afford: when
   amount * price exceeds the consumer's resources it returns False and the
   resources, energy balance and history of the consumer and the resources
   and history of the seller are all unchanged, so no purchase_energy call
   of a positive amount takes a consumer's resources from non-negative to
   negative. *)
C40_UnaffordableRefused ==
    [][last'.op = "purchase_energy" /\ last'.amount > 0 =>
         /\ PurchaseRefused
         /\ resources[last'.agent] >= 0 => resources'[last'.agent] >= 0]_vars

(* a purchase of a positive amount has succeeded and left the consumer
   with negative resources *)
C40_Witness ==
    /\ pc = "ledger"
    /\ last.op = "purchase_energy"
    /\ last.amount > 0
    /\ last.success
    /\ resources[last.agent] < 0
====
